---- MODULE Spec2Model ----
(***************************************************************************)
(* JazzPlayer: the audio analysis core (beat detection, YIN pitch          *)
(* detection) and the playback / analysis hooks that drive it.             *)
(*                                                                         *)
(* JavaScript numbers are modelled as exact rationals extended with NaN    *)
(* and the two infinities ("floats" below).  Rounding of IEEE arithmetic   *)
(* is not modelled; the inputs are chosen so that every square root taken  *)
(* is exact.                                                               *)
(***************************************************************************)
EXTENDS Integers, Sequences, FiniteSets, TLC

VARIABLES
    energyHistory,   \* audioAnalysis.ts: module-level energyHistory (one per process)
    lastCall,        \* per caller: its latest detectBeat call, arguments and BeatInfo returned
    callLog,         \* per caller: energies of its detectBeat calls since its own last reset
    afterReset       \* per caller: its latest reset emptied a history that held entries

beatVars == <<energyHistory, lastCall, callLog, afterReset>>

VARIABLES
    yinCall,         \* the arguments of a detectPitchYIN call
    yinResult,       \* what the call returned
    yinPc            \* "ready" before the call, "done" after it

yinVars == <<yinCall, yinResult, yinPc>>

VARIABLES
    utilCall,        \* a call of one of the stateless utilities: its name (fn) and arguments
    utilResult,      \* what the call returned
    utilPc           \* "ready" before the call, "done" after it

utilVars == <<utilCall, utilResult, utilPc>>

VARIABLES
    store,                  \* audioStore.ts: the zustand store (the fields modelled)
    ctxTime,                \* audioContext.currentTime, in ticks
    pauseTimeRef,           \* useAudioContext: pauseTimeRef of each hook instance
    startTimeRef,           \* useAudioContext: startTimeRef of each hook instance
    pendingEnded,           \* onended handlers of stopped sources, not yet delivered
    loading,                \* hook instances with a load between its awaits
    animationRef,           \* useAudioAnalyzer: animationRef.current holds a request id
    pendingFrames,          \* frame callbacks requested and neither run nor cancelled
    mounted,                \* the components and their hooks are mounted
    timeDomainDataRef,      \* useAudioAnalyzer: the sample window captured last
    analyzerStartTimeRef,   \* useAudioAnalyzer: startTimeRef
    preJump,                \* entries of energyHistory pushed before the latest seek or load
    staleUsed,              \* such entries in the window the latest detectBeat averaged
    instrumentLevels        \* InstrumentIndicator: the level of each instrument

playerVars ==
    <<store, ctxTime, pauseTimeRef, startTimeRef, pendingEnded, loading, animationRef,
      pendingFrames, mounted, timeDomainDataRef, analyzerStartTimeRef, preJump, staleUsed,
      instrumentLevels>>

vars == <<beatVars, yinVars, utilVars, playerVars>>

----------------------------------------------------------------------------
(* Floats: [k |-> "fin", n, d] is n/d in lowest terms with d > 0;          *)
(* [k |-> "nan"], [k |-> "inf", n |-> 1 or -1].                            *)

Abs(x) == IF x < 0 THEN -x ELSE x

RECURSIVE Gcd(_, _)
Gcd(a, b) == IF b = 0 THEN a ELSE Gcd(b, a % b)

NaN == [k |-> "nan", n |-> 0, d |-> 1]
Inf(s) == [k |-> "inf", n |-> s, d |-> 1]

Sign(x) == IF x < 0 THEN -1 ELSE IF x > 0 THEN 1 ELSE 0

\* n/d reduced by g, the sign carried by the numerator
Reduced(n, d, g) ==
    [k |-> "fin", n |-> (IF d < 0 THEN -n ELSE n) \div g, d |-> Abs(d) \div g]

Rat(n, d) == IF d = 1 THEN [k |-> "fin", n |-> n, d |-> 1]
             ELSE Reduced(n, d, Gcd(Abs(n), Abs(d)))

Num(n) == [k |-> "fin", n |-> n, d |-> 1]

IsNaN(x) == x.k = "nan"
IsFinite(x) == x.k = "fin"

\* x + y
FAdd(x, y) ==
    IF IsNaN(x) \/ IsNaN(y) THEN NaN
    ELSE IF x.k = "inf" /\ y.k = "inf" THEN (IF x.n = y.n THEN x ELSE NaN)
    ELSE IF x.k = "inf" THEN x
    ELSE IF y.k = "inf" THEN y
    ELSE Rat(x.n * y.d + y.n * x.d, x.d * y.d)

FNeg(x) == IF IsFinite(x) THEN Rat(-x.n, x.d) ELSE IF IsNaN(x) THEN NaN ELSE Inf(-x.n)

FSub(x, y) == FAdd(x, FNeg(y))

\* x * y
FMul(x, y) ==
    IF IsNaN(x) \/ IsNaN(y) THEN NaN
    ELSE IF x.k = "inf" \/ y.k = "inf"
         THEN (IF Sign(x.n) * Sign(y.n) = 0 THEN NaN ELSE Inf(Sign(x.n) * Sign(y.n)))
    ELSE Rat(x.n * y.n, x.d * y.d)

\* x / y (0/0 = NaN, x/0 = +-Infinity; zeros are taken as +0)
FDiv(x, y) ==
    IF IsNaN(x) \/ IsNaN(y) THEN NaN
    ELSE IF x.k = "inf" THEN (IF y.k = "inf" THEN NaN
                              ELSE Inf(x.n * (IF y.n < 0 THEN -1 ELSE 1)))
    ELSE IF y.k = "inf" THEN Num(0)
    ELSE IF y.n = 0 THEN (IF x.n = 0 THEN NaN ELSE Inf(Sign(x.n)))
    ELSE Rat(x.n * y.d, x.d * y.n)

\* x < y; any comparison with NaN is false
FLt(x, y) ==
    IF IsNaN(x) \/ IsNaN(y) THEN FALSE
    ELSE IF x.k = "inf" THEN x.n = -1 /\ ~(y.k = "inf" /\ y.n = -1)
    ELSE IF y.k = "inf" THEN y.n = 1
    ELSE x.n * y.d < y.n * x.d

FGt(x, y) == FLt(y, x)

\* null, as a value of a `number | null`
Null == [k |-> "null", n |-> 0, d |-> 1]

\* x === y of JavaScript: NaN equals nothing
FEq(x, y) == ~IsNaN(x) /\ ~IsNaN(y) /\ x = y

FLe(x, y) == FLt(x, y) \/ FEq(x, y)

RECURSIVE ISqrtIn(_, _, _)
\* the largest r in lo..hi-1 with r*r <= n, by bisection (lo*lo <= n < hi*hi)
ISqrtIn(n, lo, hi) ==
    IF hi - lo <= 1 THEN lo
    ELSE LET mid == (lo + hi) \div 2
         IN  IF mid * mid <= n THEN ISqrtIn(n, mid, hi) ELSE ISqrtIn(n, lo, mid)

ISqrt(n) == ISqrtIn(n, 0, n + 1)

\* Math.sqrt: sqrt(n/d) = sqrt(n*d)/d, exact whenever n*d is a perfect square
FSqrt(x) ==
    IF IsNaN(x) THEN NaN
    ELSE IF x.k = "inf" THEN (IF x.n = 1 THEN x ELSE NaN)
    ELSE IF x.n < 0 THEN NaN
    ELSE Rat(ISqrt(x.n * x.d), x.d)

\* s[lo] + ... + s[hi].  The numbers here are exact, so the two halves add up to
\* the value reduce reaches from left to right.
RECURSIVE FSumIn(_, _, _)
FSumIn(s, lo, hi) ==
    IF lo > hi THEN Num(0)
    ELSE IF lo = hi THEN FAdd(Num(0), s[lo])
    ELSE FAdd(FSumIn(s, lo, (lo + hi) \div 2), FSumIn(s, (lo + hi) \div 2 + 1, hi))

\* Array.prototype.reduce((a, b) => a + b, 0)
FSum(s) == FSumIn(s, 1, Len(s))

----------------------------------------------------------------------------
(* YIN pitch detection, src/src/utils/pitchDetection.ts                    *)
(* A sample buffer is a sequence of integers: amplitudes in units of one   *)
(* quantization step.  Index i of the source is index i + 1 here.          *)

\* bounds of the pitch-detection inputs
MaxWindow == 8        \* samples of a window

\* the sample values of the windows
Amplitudes == {-1, 0, 1}

DefaultThreshold == Rat(1, 10)
Thresholds == {DefaultThreshold, Rat(1, 2), Num(2)}
SampleRates == {1760, 44100}

RECURSIVE SeqsOf(_, _)
\* all sequences of length n over S
SeqsOf(S, n) ==
    IF n = 0 THEN {<<>>}
    ELSE {Append(w, x) : w \in SeqsOf(S, n - 1), x \in S}

Windows == UNION {SeqsOf(Amplitudes, n) : n \in 0..MaxWindow}

AllZero(buffer) == \A i \in 1..Len(buffer) : buffer[i] = 0

\* yinBuffer.length = Math.floor(bufferSize / 2)
YinLength(buffer) == Len(buffer) \div 2

RECURSIVE DifferenceTo(_, _, _)
\* sum over i < n of (buffer[i] - buffer[i + tau])^2
DifferenceTo(buffer, tau, n) ==
    IF n = 0 THEN 0
    ELSE DifferenceTo(buffer, tau, n - 1)
           + (buffer[n] - buffer[n + tau]) * (buffer[n] - buffer[n + tau])

\* step 1: the difference function at lag tau
Difference(buffer, tau) == DifferenceTo(buffer, tau, YinLength(buffer))

RECURSIVE RunningSum(_, _)
\* runningSum after the step-2 iteration of lag tau
RunningSum(buffer, tau) ==
    IF tau = 0 THEN 0 ELSE RunningSum(buffer, tau - 1) + Difference(buffer, tau)

\* a guard that turns the division by a zero running sum into 0
NormalizedGuarded(difference, tau, runningSum) ==
    IF runningSum = 0 THEN Num(0)
    ELSE FMul(Num(difference), FDiv(Num(tau), Num(runningSum)))

\* yinBuffer[tau] *= tau / runningSum
Normalized(difference, tau, runningSum) ==
    FMul(Num(difference), FDiv(Num(tau), Num(runningSum)))

\* step 2: the cumulative mean normalized difference; yinBuffer[0] = 1
YinBuffer(buffer) ==
    [t \in 1..YinLength(buffer) |->
        IF t = 1 THEN Num(1)
        ELSE Normalized(Difference(buffer, t - 1), t - 1, RunningSum(buffer, t - 1))]

RECURSIVE Descend(_, _)
\* while (tau + 1 < yinBuffer.length && yinBuffer[tau + 1] < yinBuffer[tau]) tau++
Descend(yin, tau) ==
    IF tau + 1 < Len(yin) /\ FLt(yin[tau + 2], yin[tau + 1])
    THEN Descend(yin, tau + 1)
    ELSE tau

RECURSIVE TauEstimateFrom(_, _, _)
\* step 3, from lag tau on: the locked lag, or -1
TauEstimateFrom(yin, threshold, tau) ==
    IF tau >= Len(yin) THEN -1
    ELSE IF FLt(yin[tau + 1], threshold) THEN Descend(yin, tau)
    ELSE TauEstimateFrom(yin, threshold, tau + 1)

\* the scan started at lag 1
TauEstimateFromOne(yin, threshold) == TauEstimateFrom(yin, threshold, 1)

TauEstimate(yin, threshold) == TauEstimateFrom(yin, threshold, 2)

\* step 4: parabolic interpolation around the locked lag
BetterTau(yin, tauEstimate) ==
    LET x0 == IF tauEstimate < 1 THEN tauEstimate ELSE tauEstimate - 1
        x2 == IF tauEstimate + 1 < Len(yin) THEN tauEstimate + 1 ELSE tauEstimate
        s0 == yin[x0 + 1]
        s1 == yin[tauEstimate + 1]
        s2 == yin[x2 + 1]
    IN  IF x0 = tauEstimate
        THEN (IF FLe(s1, s2) THEN Num(tauEstimate) ELSE Num(x2))
        ELSE IF x2 = tauEstimate
        THEN (IF FLe(s1, s0) THEN Num(tauEstimate) ELSE Num(x0))
        ELSE FAdd(Num(tauEstimate),
                  FDiv(FSub(s2, s0),
                       FMul(Num(2), FSub(FSub(FMul(Num(2), s1), s2), s0))))

\* steps 3 to 5 on the normalized buffer
PitchFromYin(yin, sampleRate, threshold) ==
    IF TauEstimate(yin, threshold) = -1 THEN Null
    ELSE FDiv(Num(sampleRate), BetterTau(yin, TauEstimate(yin, threshold)))

\* detectPitchYIN(buffer, sampleRate, threshold)
DetectPitchYIN(buffer, sampleRate, threshold) ==
    PitchFromYin(YinBuffer(buffer), sampleRate, threshold)

YinIdle ==
    /\ yinCall = [buffer |-> <<>>, sampleRate |-> 44100, threshold |-> DefaultThreshold]
    /\ yinResult = Null
    /\ yinPc = "idle"

\* no utility call
UtilIdle ==
    /\ utilCall = [fn |-> "none"]
    /\ utilResult = Null
    /\ utilPc = "idle"

\* the call returns
YinDetect ==
    /\ yinPc = "ready"
    /\ yinResult' = DetectPitchYIN(yinCall.buffer, yinCall.sampleRate, yinCall.threshold)
    /\ yinPc' = "done"
    /\ UNCHANGED <<yinCall, beatVars, utilVars, playerVars>>


----------------------------------------------------------------------------
(* Autocorrelation pitch detection, src/src/utils/pitchDetection.ts        *)
(* A sample here is an integer number of tenths of full scale, so a        *)
(* product of two samples is a number of hundredths.                       *)

\* bound of the autocorrelation inputs
MaxLagWindow == 6     \* samples of a window

\* the sample values, in tenths
TenthAmplitudes == {-10, 0, 1, 10}

LagWindows == UNION {SeqsOf(TenthAmplitudes, n) : n \in 0..MaxLagWindow}

\* sampleRate, minFreq and maxFreq: lags 2..10, 1..10, 2..2, none, and 0..10
LagRanges ==
    {[sampleRate |-> 10, minFreq |-> 1, maxFreq |-> 4],
     [sampleRate |-> 10, minFreq |-> 1, maxFreq |-> 10],
     [sampleRate |-> 10, minFreq |-> 4, maxFreq |-> 5],
     [sampleRate |-> 10, minFreq |-> 6, maxFreq |-> 4],
     [sampleRate |-> 10, minFreq |-> 1, maxFreq |-> 20]}

\* Math.floor(sampleRate / maxFreq)
MinPeriod(range) == range.sampleRate \div range.maxFreq

\* Math.floor(sampleRate / minFreq)
MaxPeriod(range) == range.sampleRate \div range.minFreq

\* the lags the loop examines: period <= maxPeriod && period < bufferSize / 2
ExaminedPeriods(buffer, range) ==
    {period \in MinPeriod(range)..MaxPeriod(range) : 2 * period < Len(buffer)}

RECURSIVE Products(_, _, _)
\* correlation += buffer[i] * buffer[i + period] for i < n, in hundredths
Products(buffer, period, n) ==
    IF n = 0 THEN 0
    ELSE Products(buffer, period, n - 1) + buffer[n] * buffer[n + period]

\* correlation /= bufferSize - period
Correlation(buffer, period) ==
    FDiv(Rat(Products(buffer, period, Len(buffer) - period), 100),
         Num(Len(buffer) - period))

\* if (correlation > bestCorrelation) { bestCorrelation = correlation; bestPeriod = period }
Better(buffer, period, best) ==
    IF FGt(Correlation(buffer, period), best.bestCorrelation)
    THEN [bestCorrelation |-> Correlation(buffer, period), bestPeriod |-> period]
    ELSE best

RECURSIVE BestFrom(_, _, _, _)
\* the loop over the lags from `period` on
BestFrom(buffer, range, period, best) ==
    IF ~(period <= MaxPeriod(range) /\ 2 * period < Len(buffer)) THEN best
    ELSE BestFrom(buffer, range, period + 1, Better(buffer, period, best))

\* if (bestPeriod === 0 || bestCorrelation < 0.01) return null; return sampleRate / bestPeriod
PitchOfBest(best, sampleRate) ==
    IF best.bestPeriod = 0 \/ FLt(best.bestCorrelation, Rat(1, 100)) THEN Null
    ELSE FDiv(Num(sampleRate), Num(best.bestPeriod))

\* detectPitchAutocorrelation(buffer, sampleRate, minFreq, maxFreq)
DetectPitchAutocorrelation(buffer, range) ==
    PitchOfBest(BestFrom(buffer, range, MinPeriod(range),
                         [bestCorrelation |-> Num(0), bestPeriod |-> 0]),
                range.sampleRate)

LagCalls == [fn : {"detectPitchAutocorrelation"}, buffer : LagWindows, range : LagRanges]

\* the detectPitchAutocorrelation call returns
DetectPitchAutocorrelationCall ==
    /\ utilPc = "ready"
    /\ utilCall.fn = "detectPitchAutocorrelation"
    /\ utilResult' = DetectPitchAutocorrelation(utilCall.buffer, utilCall.range)
    /\ utilPc' = "done"
    /\ UNCHANGED <<utilCall, beatVars, yinVars, playerVars>>

----------------------------------------------------------------------------
(* Note mapping, src/src/utils/pitchDetection.ts                           *)

NOTE_NAMES == <<"C", "C#", "D", "D#", "E", "F", "F#", "G", "G#", "A", "A#", "B">>

\* 2^(j/24) for j = 0..24 in units of 1/10000: the quarter-tone steps of an octave
QuarterTones ==
    <<10000, 10293, 10595, 10905, 11225, 11554, 11892, 12241, 12599, 12968, 13348,
      13740, 14142, 14557, 14983, 15422, 15874, 16339, 16818, 17311, 17818, 18340,
      18877, 19431, 20000>>

RECURSIVE QuarterStepsOf(_, _)
\* floor(24 * log2(r)) for a rational r > 0, o being 24 times the octaves taken out
QuarterStepsOf(r, o) ==
    IF r.n >= 2 * r.d THEN QuarterStepsOf(Rat(r.n, 2 * r.d), o + 24)
    ELSE IF r.n < r.d THEN QuarterStepsOf(Rat(2 * r.n, r.d), o - 24)
    ELSE o + Cardinality({j \in 1..23 : QuarterTones[j + 1] * r.d <= 10000 * r.n})

\* Number.MIN_VALUE, the smallest positive double (2^-1074): finite and > 0
MinValue == [k |-> "min", n |-> 1, d |-> 1]

\* frequency / 440 in doubles: the quotient of the smallest double underflows to 0
Over440(frequency) ==
    IF frequency = MinValue THEN Num(0) ELSE FDiv(frequency, Num(440))

\* Math.round(12 * Math.log2(frequency / 440)); Math.log2(0) = -Infinity
RoundedSemitones(frequency) ==
    IF Over440(frequency) = Num(0) THEN Inf(-1)
    ELSE Num((QuarterStepsOf(Over440(frequency), 0) + 1) \div 2)

\* a % b of JavaScript: the sign of the dividend
JsRem(a, b) == IF a >= 0 THEN a % b ELSE -((-a) % b)

\* a / b truncated toward zero
TruncDiv(a, b) == IF a >= 0 THEN a \div b ELSE -((-a) \div b)

NoNote == [set |-> FALSE, note |-> "", octave |-> 0]

\* the octave truncated toward zero instead of floored
NoteOfSemitonesTrunc(roundedSemitones) ==
    [set |-> TRUE,
     note |-> NOTE_NAMES[(IF JsRem(roundedSemitones + 9, 12) >= 0
                          THEN JsRem(roundedSemitones + 9, 12)
                          ELSE JsRem(roundedSemitones + 9, 12) + 12) + 1],
     octave |-> TruncDiv(roundedSemitones + 9, 12) + 4]

\* noteIndex, octave and noteName of an integer roundedSemitones
NoteOfSemitones(roundedSemitones) ==
    [set |-> TRUE,
     note |-> NOTE_NAMES[(IF JsRem(roundedSemitones + 9, 12) >= 0
                          THEN JsRem(roundedSemitones + 9, 12)
                          ELSE JsRem(roundedSemitones + 9, 12) + 12) + 1],
     octave |-> ((roundedSemitones + 9) \div 12) + 4]

\* roundedSemitones = -Infinity: noteIndex is NaN, NOTE_NAMES[NaN] is undefined
\* and the octave is -Infinity
UndefinedNote == [set |-> TRUE, note |-> "undefined", octave |-> Inf(-1)]

\* frequency <= 0 || !isFinite(frequency)
InvalidFrequency(frequency) ==
    \/ IsNaN(frequency)
    \/ frequency.k = "inf"
    \/ frequency.k = "fin" /\ frequency.n <= 0

\* frequencyToNote(frequency): the note and the octave (cents are not modelled)
FrequencyToNote(frequency) ==
    IF InvalidFrequency(frequency) THEN NoNote
    ELSE IF RoundedSemitones(frequency).k = "inf" THEN UndefinedNote
    ELSE NoteOfSemitones(RoundedSemitones(frequency).n)

\* NOTE_NAMES.indexOf(note)
NoteIndexOf(note) ==
    IF \E i \in 1..12 : NOTE_NAMES[i] = note
    THEN (CHOOSE i \in 1..12 : NOTE_NAMES[i] = note) - 1
    ELSE -1

\* noteIndex - 9 + (octave - 4) * 12
SemitonesOf(note, octave) == NoteIndexOf(note) - 9 + (octave - 4) * 12

RECURSIVE Pow2(_)
Pow2(e) == IF e = 0 THEN 1 ELSE 2 * Pow2(e - 1)

\* 440 * Math.pow(2, semitones / 12), the semitone ratios taken from QuarterTones
SemitonesToFrequency(semitones) ==
    IF semitones >= 0
    THEN Rat(440 * QuarterTones[2 * (semitones % 12) + 1] * Pow2(semitones \div 12), 10000)
    ELSE Rat(440 * QuarterTones[2 * (semitones % 12) + 1],
             10000 * Pow2(-(semitones \div 12)))

\* noteToFrequency(note, octave)
NoteToFrequency(note, octave) ==
    IF NoteIndexOf(note) = -1 THEN Num(0)
    ELSE SemitonesToFrequency(SemitonesOf(note, octave))

\* getPianoNotes(): the (note, octave) pairs from A0 to C8
GetPianoNotes ==
    {<<NOTE_NAMES[i + 1], octave>> : i \in 0..11, octave \in 0..8} \
    ({<<NOTE_NAMES[i + 1], 0>> : i \in 0..8} \cup {<<NOTE_NAMES[i + 1], 8>> : i \in 1..11})

\* bound of the semitone offsets from A4 tried
MaxSemitones == 50

\* the frequencies passed to frequencyToNote that come from no note
RawFrequencies ==
    {Num(0), Num(-1), Num(-440), NaN, Inf(1), Inf(-1), MinValue, Rat(1, 10), Num(1),
     Rat(55, 2), Num(439), Num(440), Num(453), Num(4186), Num(20000), Num(1000000)}

\* where the frequency of a frequencyToNote call came from
NoOrigin == [kind |-> "raw", note |-> "", octave |-> 0, semitones |-> 0]
NoteCalls ==
    {[fn |-> "frequencyToNote", frequency |-> f, origin |-> NoOrigin] : f \in RawFrequencies}
    \cup {[fn |-> "frequencyToNote", frequency |-> NoteToFrequency(p[1], p[2]),
           origin |-> [kind |-> "note", note |-> p[1], octave |-> p[2], semitones |-> 0]] :
            p \in GetPianoNotes}
    \cup {[fn |-> "frequencyToNote", frequency |-> SemitonesToFrequency(s),
           origin |-> [kind |-> "semitones", note |-> "", octave |-> 0, semitones |-> s]] :
            s \in (-MaxSemitones)..MaxSemitones}

\* the frequencyToNote call returns
FrequencyToNoteCall ==
    /\ utilPc = "ready"
    /\ utilCall.fn = "frequencyToNote"
    /\ utilResult' = FrequencyToNote(utilCall.frequency)
    /\ utilPc' = "done"
    /\ UNCHANGED <<utilCall, beatVars, yinVars, playerVars>>

----------------------------------------------------------------------------
(* Spectrum utilities, src/src/utils/audioAnalysis.ts                      *)
(* A spectrum is a sequence of byte magnitudes; bin i of the source is     *)
(* index i + 1 here.                                                       *)

\* Math.round: the nearest integer, halves rounded up
JsRound(x) == IF IsFinite(x) THEN Num((2 * x.n + x.d) \div (2 * x.d)) ELSE x

\* binToFrequency(binIndex, sampleRate, fftSize)
BinToFrequency(binIndex, sampleRate, fftSize) ==
    FDiv(FMul(binIndex, sampleRate), fftSize)

\* the bin width taken as sampleRate / (fftSize / 2)
FrequencyToBinHalf(frequency, sampleRate, fftSize) ==
    JsRound(FDiv(FMul(frequency, FDiv(fftSize, Num(2))), sampleRate))

\* frequencyToBin(frequency, sampleRate, fftSize)
FrequencyToBin(frequency, sampleRate, fftSize) ==
    JsRound(FDiv(FMul(frequency, fftSize), sampleRate))

\* bounds of the bin conversions
MaxBin == 20
BinSampleRates == {8000, 44100, 48000}
FftSizes == {32, 100, 2048}

\* frequencyToBin called on the frequency binToFrequency gave for a bin
BinCalls ==
    {[fn |-> "frequencyToBin",
      frequency |-> BinToFrequency(Num(b), Num(sr), Num(n)),
      sampleRate |-> sr, fftSize |-> n, bin |-> b] :
        b \in 0..MaxBin, sr \in BinSampleRates, n \in FftSizes}

\* the frequencyToBin call returns
FrequencyToBinCall ==
    /\ utilPc = "ready"
    /\ utilCall.fn = "frequencyToBin"
    /\ utilResult' = FrequencyToBin(utilCall.frequency, Num(utilCall.sampleRate),
                                    Num(utilCall.fftSize))
    /\ utilPc' = "done"
    /\ UNCHANGED <<utilCall, beatVars, yinVars, playerVars>>

\* bounds of the spectra passed to the spectrum utilities
MaxSpectrum == 6      \* bins of a spectrum

\* the magnitudes of the bins
Magnitudes == {0, 120, 200}

SmallSpectra == UNION {SeqsOf(Magnitudes, n) : n \in 0..MaxSpectrum}

\* sample rate and transform size of the analyser the spectrum came from
Formats == {[sampleRate |-> 8000, fftSize |-> 16], [sampleRate |-> 44100, fftSize |-> 64]}

\* minFreq and maxFreq: the defaults, and a range that ends inside the spectrum
DefaultRange == [minFreq |-> 80, maxFreq |-> 4000]
Ranges == {DefaultRange, [minFreq |-> 500, maxFreq |-> 3000]}

\* frequencyToBin of an integer frequency, as the loop bound it is used for
BinOf(frequency, format) ==
    FrequencyToBin(Num(frequency), Num(format.sampleRate), Num(format.fftSize)).n

\* frequencyData[i] > frequencyData[j]; a comparison with undefined is false
Exceeds(frequencyData, i, j) ==
    /\ i >= 0 /\ i < Len(frequencyData)
    /\ j >= 0 /\ j < Len(frequencyData)
    /\ frequencyData[i + 1] > frequencyData[j + 1]

\* a maximum that only has to reach its right neighbour
IsLocalMaximumPlateau(frequencyData, i, threshold) ==
    /\ Exceeds(frequencyData, i, i - 1)
    /\ ~Exceeds(frequencyData, i + 1, i)
    /\ frequencyData[i + 1] > threshold

\* the condition of the if in the peak loop
IsLocalMaximum(frequencyData, i, threshold) ==
    /\ Exceeds(frequencyData, i, i - 1)
    /\ Exceeds(frequencyData, i, i + 1)
    /\ frequencyData[i + 1] > threshold

\* { frequency: binToFrequency(i, sampleRate, fftSize), amplitude: frequencyData[i] }
PeakAt(frequencyData, i, format) ==
    [frequency |-> BinToFrequency(Num(i), Num(format.sampleRate), Num(format.fftSize)),
     amplitude |-> frequencyData[i + 1]]

RECURSIVE FindPeaks(_, _, _, _, _, _)
\* for (i; i < maxBin - 1 && i < frequencyData.length - 1; i++) if (...) peaks.push(...)
FindPeaks(frequencyData, i, maxBin, threshold, format, peaks) ==
    IF ~(i < maxBin - 1 /\ i < Len(frequencyData) - 1) THEN peaks
    ELSE FindPeaks(frequencyData, i + 1, maxBin, threshold, format,
                   IF IsLocalMaximum(frequencyData, i, threshold)
                   THEN Append(peaks, PeakAt(frequencyData, i, format))
                   ELSE peaks)

\* the place of p when equal amplitudes are put in front
RECURSIVE InsertPeakFirst(_, _, _)
InsertPeakFirst(sorted, p, at) ==
    IF at > Len(sorted) THEN Append(sorted, p)
    ELSE IF p.amplitude - sorted[at].amplitude >= 0
         THEN SubSeq(sorted, 1, at - 1) \o <<p>> \o SubSeq(sorted, at, Len(sorted))
         ELSE InsertPeakFirst(sorted, p, at + 1)

\* the place of p in a sequence sorted by (a, b) => b.amplitude - a.amplitude: behind
\* every element that does not sort after it
RECURSIVE InsertPeak(_, _, _)
InsertPeak(sorted, p, at) ==
    IF at > Len(sorted) THEN Append(sorted, p)
    ELSE IF p.amplitude - sorted[at].amplitude > 0
         THEN SubSeq(sorted, 1, at - 1) \o <<p>> \o SubSeq(sorted, at, Len(sorted))
         ELSE InsertPeak(sorted, p, at + 1)

RECURSIVE SortPeaksFrom(_, _, _)
SortPeaksFrom(peaks, i, sorted) ==
    IF i > Len(peaks) THEN sorted
    ELSE SortPeaksFrom(peaks, i + 1, InsertPeak(sorted, peaks[i], 1))

\* peaks.sort((a, b) => b.amplitude - a.amplitude): a stable sort, descending
SortPeaks(peaks) == SortPeaksFrom(peaks, 1, <<>>)

\* the slice that keeps one element more than asked
SliceOneMore(s, n) == SubSeq(s, 1, IF n + 1 < Len(s) THEN n + 1 ELSE Len(s))

\* s.slice(0, n) for n >= 0
Slice(s, n) == SubSeq(s, 1, IF n < Len(s) THEN n ELSE Len(s))

\* getFrequencyPeaks(frequencyData, sampleRate, fftSize, numPeaks, minFreq, maxFreq, threshold)
GetFrequencyPeaks(frequencyData, format, numPeaks, range, threshold) ==
    Slice(SortPeaks(FindPeaks(frequencyData, BinOf(range.minFreq, format) + 1,
                              BinOf(range.maxFreq, format), threshold, format, <<>>)),
          numPeaks)

\* the peak-finding calls of the bounds
PeakCounts == {1, 2, 5}
PeakThresholds == {100, 150}
PeakCalls ==
    [fn : {"getFrequencyPeaks"}, frequencyData : SmallSpectra, format : Formats,
     numPeaks : PeakCounts, range : Ranges, threshold : PeakThresholds]

\* the call with its spectrum reversed in place
GetFrequencyPeaksCallReversing ==
    /\ utilPc = "ready"
    /\ utilCall.fn = "getFrequencyPeaks"
    /\ utilResult' = GetFrequencyPeaks(utilCall.frequencyData, utilCall.format,
                                       utilCall.numPeaks, utilCall.range,
                                       utilCall.threshold)
    /\ utilPc' = "done"
    /\ utilCall' = [utilCall EXCEPT !.frequencyData =
                       [i \in 1..Len(@) |-> @[Len(@) + 1 - i]]]
    /\ UNCHANGED <<beatVars, yinVars, playerVars>>

\* the getFrequencyPeaks call returns
GetFrequencyPeaksCall ==
    /\ utilPc = "ready"
    /\ utilCall.fn = "getFrequencyPeaks"
    /\ utilResult' = GetFrequencyPeaks(utilCall.frequencyData, utilCall.format,
                                       utilCall.numPeaks, utilCall.range,
                                       utilCall.threshold)
    /\ utilPc' = "done"
    /\ UNCHANGED <<utilCall, beatVars, yinVars, playerVars>>

\* the magnitudes of the spectra passed to getDominantFrequency
DominantMagnitudes == {0, 99, 100, 200}

RECURSIVE ScanMaxLast(_, _, _, _)
\* the scan with >= in place of >
ScanMaxLast(frequencyData, i, maxBin, max) ==
    IF ~(i < maxBin /\ i < Len(frequencyData)) THEN max
    ELSE ScanMaxLast(frequencyData, i + 1, maxBin,
                     IF i >= 0 /\ frequencyData[i + 1] >= max.maxValue
                     THEN [maxValue |-> frequencyData[i + 1], maxIndex |-> i]
                     ELSE max)

RECURSIVE ScanMax(_, _, _, _)
\* for (i; i < maxBin && i < frequencyData.length; i++)
\*   if (frequencyData[i] > maxValue) { maxValue = frequencyData[i]; maxIndex = i }
ScanMax(frequencyData, i, maxBin, max) ==
    IF ~(i < maxBin /\ i < Len(frequencyData)) THEN max
    ELSE ScanMax(frequencyData, i + 1, maxBin,
                 IF i >= 0 /\ frequencyData[i + 1] > max.maxValue
                 THEN [maxValue |-> frequencyData[i + 1], maxIndex |-> i]
                 ELSE max)

\* if (maxValue < 100) return null; return binToFrequency(maxIndex, sampleRate, fftSize)
DominantOf(max, format) ==
    IF max.maxValue < 100 THEN Null
    ELSE BinToFrequency(Num(max.maxIndex), Num(format.sampleRate), Num(format.fftSize))

\* getDominantFrequency(frequencyData, sampleRate, fftSize, minFreq, maxFreq)
GetDominantFrequency(frequencyData, format, range) ==
    DominantOf(ScanMax(frequencyData, BinOf(range.minFreq, format),
                       BinOf(range.maxFreq, format), [maxValue |-> 0, maxIndex |-> 0]),
               format)

DominantCalls ==
    [fn : {"getDominantFrequency"},
     frequencyData : UNION {SeqsOf(DominantMagnitudes, n) : n \in 0..MaxSpectrum},
     format : Formats, range : Ranges]

\* the getDominantFrequency call returns
GetDominantFrequencyCall ==
    /\ utilPc = "ready"
    /\ utilCall.fn = "getDominantFrequency"
    /\ utilResult' = GetDominantFrequency(utilCall.frequencyData, utilCall.format,
                                          utilCall.range)
    /\ utilPc' = "done"
    /\ UNCHANGED <<utilCall, beatVars, yinVars, playerVars>>

\* const bands = { subBass: { min: 20, max: 60 }, ..., brilliance: { min: 6000, max: 20000 } }
Bands ==
    <<[name |-> "subBass", min |-> 20, max |-> 60],
      [name |-> "bass", min |-> 60, max |-> 250],
      [name |-> "lowMid", min |-> 250, max |-> 500],
      [name |-> "mid", min |-> 500, max |-> 2000],
      [name |-> "highMid", min |-> 2000, max |-> 4000],
      [name |-> "presence", min |-> 4000, max |-> 6000],
      [name |-> "brilliance", min |-> 6000, max |-> 20000]>>

BandNames == {Bands[b].name : b \in 1..Len(Bands)}

\* the first i at which i < maxBin && i < frequencyData.length fails
LoopEnd(frequencyData, minBin, maxBin) ==
    IF minBin >= maxBin \/ minBin >= Len(frequencyData) THEN minBin
    ELSE IF maxBin < Len(frequencyData) THEN maxBin
    ELSE Len(frequencyData)

RECURSIVE SumBins(_, _, _)
\* sum += frequencyData[i] for i of from .. to - 1.  The magnitudes are
\* integers, so the two halves add up to the value the loop reaches.
SumBins(frequencyData, from, to) ==
    IF from >= to THEN 0
    ELSE IF from + 1 = to THEN frequencyData[from + 1]
    ELSE SumBins(frequencyData, from, (from + to) \div 2)
         + SumBins(frequencyData, (from + to) \div 2, to)

\* the ternary without its guard and its division
MeanOrZeroSum(sum, count) == Num(sum)

\* count > 0 ? sum / count : 0
MeanOrZero(sum, count) == IF count > 0 THEN Rat(sum, count) ELSE Num(0)

\* the loop over one bin more, i <= maxBin
BandEnergyInclusive(frequencyData, minBin, maxBin) ==
    MeanOrZero(SumBins(frequencyData, minBin, LoopEnd(frequencyData, minBin, maxBin + 1)),
               LoopEnd(frequencyData, minBin, maxBin + 1) - minBin)

\* sum and count of the band's loop, then the ternary
BandEnergy(frequencyData, minBin, maxBin) ==
    MeanOrZero(SumBins(frequencyData, minBin, LoopEnd(frequencyData, minBin, maxBin)),
               LoopEnd(frequencyData, minBin, maxBin) - minBin)

\* calculateBandEnergies(frequencyData, sampleRate, fftSize)
CalculateBandEnergies(frequencyData, format) ==
    [name \in BandNames |->
        LET range == CHOOSE b \in {Bands[x] : x \in 1..Len(Bands)} : b.name = name
        IN  BandEnergy(frequencyData, BinOf(range.min, format), BinOf(range.max, format))]

\* the magnitudes of the spectra passed to calculateBandEnergies
BandMagnitudes == {0, 100, 255}

\* analysers whose spectrum of fftSize / 2 bins is passed whole
WholeFormats ==
    {[sampleRate |-> 44100, fftSize |-> 2048], [sampleRate |-> 8000, fftSize |-> 2048],
     [sampleRate |-> 44100, fftSize |-> 256], [sampleRate |-> 48000, fftSize |-> 32]}

\* the spectrum of n bins that all hold magnitude m
Uniform(m, n) == [i \in 1..n |-> m]

BandCalls ==
    [fn : {"calculateBandEnergies"},
     frequencyData : UNION {SeqsOf(BandMagnitudes, n) : n \in 0..MaxSpectrum},
     format : Formats]
    \cup {[fn |-> "calculateBandEnergies",
           frequencyData |-> Uniform(100, f.fftSize \div 2), format |-> f] :
          f \in WholeFormats \cup Formats}

\* the calculateBandEnergies call returns
CalculateBandEnergiesCall ==
    /\ utilPc = "ready"
    /\ utilCall.fn = "calculateBandEnergies"
    /\ utilResult' = CalculateBandEnergies(utilCall.frequencyData, utilCall.format)
    /\ utilPc' = "done"
    /\ UNCHANGED <<utilCall, beatVars, yinVars, playerVars>>

\* the magnitudes of the spectra passed to calculateSpectralCentroid
CentroidMagnitudes == {0, 1, 255}

\* frequency * magnitude of every bin, frequency = binToFrequency(i, sampleRate, fftSize)
WeightedBins(frequencyData, format) ==
    [b \in 1..Len(frequencyData) |->
        FMul(BinToFrequency(Num(b - 1), Num(format.sampleRate), Num(format.fftSize)),
             Num(frequencyData[b]))]

\* the ternary without its guard
CentroidOfUnguarded(weightedSum, magnitudeSum) == FDiv(weightedSum, Num(magnitudeSum))

\* magnitudeSum > 0 ? weightedSum / magnitudeSum : 0
CentroidOf(weightedSum, magnitudeSum) ==
    IF magnitudeSum > 0 THEN FDiv(weightedSum, Num(magnitudeSum)) ELSE Num(0)

\* calculateSpectralCentroid(frequencyData, sampleRate, fftSize)
CalculateSpectralCentroid(frequencyData, format) ==
    CentroidOf(FSum(WeightedBins(frequencyData, format)),
               SumBins(frequencyData, 0, Len(frequencyData)))

CentroidCalls ==
    [fn : {"calculateSpectralCentroid"},
     frequencyData : UNION {SeqsOf(CentroidMagnitudes, n) : n \in 0..MaxSpectrum},
     format : Formats]

\* the calculateSpectralCentroid call returns
CalculateSpectralCentroidCall ==
    /\ utilPc = "ready"
    /\ utilCall.fn = "calculateSpectralCentroid"
    /\ utilResult' = CalculateSpectralCentroid(utilCall.frequencyData, utilCall.format)
    /\ utilPc' = "done"
    /\ UNCHANGED <<utilCall, beatVars, yinVars, playerVars>>

----------------------------------------------------------------------------
(* Beat detection, src/src/utils/audioAnalysis.ts                          *)

HISTORY_SIZE == 43

\* bounds of the beat-detection runs: a run is the detectBeat calls of one caller
\* between two of its resets
MaxCalls == 45        \* calls of a run
MaxVaried == 2        \* calls of a run on a spectrum other than the baseline one
MaxMixedCalls == 5    \* calls of a run that holds more than one such call
MaxSessionCalls == 3  \* calls of all callers together when two sessions interleave

Callers == {1, 2}

\* A Uint8Array of `len` bins whose first bins are `head` and the rest `fill`
Bins(len, head, fill) ==
    [i \in 1..len |-> IF i <= Len(head) THEN head[i] ELSE fill]

BaselineSpectrum == Bins(10, <<20>>, 7)
EmptySpectrum == <<>>
ShortSpectrum == Bins(5, <<200>>, 200)
ZeroSpectrum == Bins(10, <<>>, 0)
SpikeSpectrum == Bins(10, <<80>>, 3)
FloorSpectrum == Bins(20, <<34, 62>>, 255)

Spectra ==
    {BaselineSpectrum, EmptySpectrum, ShortSpectrum, ZeroSpectrum, SpikeSpectrum,
     FloorSpectrum}

\* a spectrum with at least one bass bin
WellFormed(frequencyData) == Len(frequencyData) >= 10

DefaultSensitivity == Rat(13, 10)
Sensitivities == {Rat(1, 2), DefaultSensitivity, Num(2)}

\* Math.floor(frequencyData.length * 0.1)
BassRange(frequencyData) == Len(frequencyData) \div 10

RECURSIVE SumSquares(_, _)
\* for (i = 0; i < bassRange; i++) energy += frequencyData[i] * frequencyData[i]
SumSquares(frequencyData, n) ==
    IF n = 0 THEN 0
    ELSE SumSquares(frequencyData, n - 1) + frequencyData[n] * frequencyData[n]

\* energy = Math.sqrt(energy / bassRange)
BassEnergy(frequencyData) ==
    FSqrt(FDiv(Num(SumSquares(frequencyData, BassRange(frequencyData))),
               Num(BassRange(frequencyData))))

\* push without the shift
PushNoEvict(history, energy) == Append(history, energy)

\* push, then drop the newest of the old entries instead of the oldest
PushEvictNewest(history, energy) ==
    IF Len(history) + 1 > HISTORY_SIZE
    THEN Append(SubSeq(history, 1, Len(history) - 1), energy)
    ELSE Append(history, energy)

\* energyHistory.push(energy); if (length > HISTORY_SIZE) energyHistory.shift()
PushHistory(history, energy) ==
    IF Len(history) + 1 > HISTORY_SIZE
    THEN Tail(Append(history, energy))
    ELSE Append(history, energy)

\* the sum divided by the capacity of the history instead of its length
AverageEnergyOverCap(history) == FDiv(FSum(history), Num(HISTORY_SIZE))

\* energyHistory.reduce((a, b) => a + b, 0) / energyHistory.length
AverageEnergy(history) == FDiv(FSum(history), Num(Len(history)))

\* the absolute floor left out
IsBeatNoFloor(energy, averageEnergy, sensitivity) ==
    FGt(energy, FMul(averageEnergy, sensitivity))

\* energy > averageEnergy * sensitivity && energy > 50
IsBeat(energy, averageEnergy, sensitivity) ==
    FGt(energy, FMul(averageEnergy, sensitivity)) /\ FGt(energy, Num(50))

\* return { isBeat, energy, averageEnergy }
BeatResult(energy, averageEnergy, sensitivity) ==
    [isBeat |-> IsBeat(energy, averageEnergy, sensitivity),
     energy |-> energy,
     averageEnergy |-> averageEnergy]

NoBeatInfo == [isBeat |-> FALSE, energy |-> NaN, averageEnergy |-> NaN]
NoCall ==
    [called |-> FALSE, frequencyData |-> <<>>, sensitivity |-> DefaultSensitivity,
     info |-> NoBeatInfo]

BaselineEnergy == BassEnergy(BaselineSpectrum)
Varied(log) == Cardinality({i \in 1..Len(log) : log[i] # BaselineEnergy})

\* the calls the bounds admit: the run stays within MaxCalls calls, MaxVaried of them
\* off the baseline, and within MaxMixedCalls calls once two of them are
Admitted(log, frequencyData) ==
    /\ Len(log) < MaxCalls
    /\ frequencyData # BaselineSpectrum => Varied(log) < MaxVaried
    /\ Varied(log) + (IF frequencyData # BaselineSpectrum THEN 1 ELSE 0) > 1
          => Len(log) < MaxMixedCalls

\* the effect of a detectBeat call that leaves history and returns info to caller c
Returned(c, frequencyData, sensitivity, history, info) ==
    /\ energyHistory' = history
    /\ lastCall' = [lastCall EXCEPT ![c] =
                      [called |-> TRUE, frequencyData |-> frequencyData,
                       sensitivity |-> sensitivity, info |-> info]]
    /\ callLog' = [callLog EXCEPT ![c] = Append(@, info.energy)]
    /\ UNCHANGED afterReset

\* detectBeat(frequencyData, sensitivity) called by caller c, statement by
\* statement: the energy, the push and shift, the average, the result
DetectBeat(c, frequencyData, sensitivity) ==
    /\ Admitted(callLog[c], frequencyData)
    /\ \E energy \in {BassEnergy(frequencyData)} :
       \E history \in {PushHistory(energyHistory, energy)} :
       \E averageEnergy \in {AverageEnergy(history)} :
           Returned(c, frequencyData, sensitivity, history,
                    BeatResult(energy, averageEnergy, sensitivity))

\* a reset that leaves the history as it is
ResetKeepsHistory(c) ==
    /\ UNCHANGED energyHistory
    /\ lastCall' = [lastCall EXCEPT ![c] = NoCall]
    /\ callLog' = [callLog EXCEPT ![c] = <<>>]
    /\ afterReset' = [afterReset EXCEPT ![c] = (energyHistory # <<>>)]

\* resetBeatDetection() called by caller c: energyHistory.length = 0
ResetBeatDetection(c) ==
    /\ energyHistory' = <<>>
    /\ lastCall' = [lastCall EXCEPT ![c] = NoCall]
    /\ callLog' = [callLog EXCEPT ![c] = <<>>]
    /\ afterReset' = [afterReset EXCEPT ![c] = (energyHistory # <<>>)]

BeatIdle ==
    /\ energyHistory = <<>>
    /\ lastCall = [c \in Callers |-> NoCall]
    /\ callLog = [c \in Callers |-> <<>>]
    /\ afterReset = [c \in Callers |-> FALSE]

\* bound of the runs that call every analysis function
MaxFrameCalls == 2    \* detectBeat calls before the call under observation

\* the spectra and the sample windows of a frame
FrameInputs == {BaselineSpectrum, SpikeSpectrum}
FrameBuffers == {<<10, 0, 10, 0, 10, 0>>, <<0, 0, 0, 0, 0, 0>>}

\* one call of every analysis function on the buffers of a frame
FrameCalls ==
    [fn : {"detectBeat"}, frequencyData : FrameInputs, sensitivity : {DefaultSensitivity}]
    \cup [fn : {"getDominantFrequency"}, frequencyData : FrameInputs, format : Formats,
          range : {DefaultRange}]
    \cup [fn : {"getFrequencyPeaks"}, frequencyData : FrameInputs, format : Formats,
          numPeaks : {5}, range : {DefaultRange}, threshold : {100}]
    \cup [fn : {"calculateSpectralCentroid", "calculateBandEnergies"},
          frequencyData : FrameInputs, format : Formats]
    \cup [fn : {"detectPitchAutocorrelation"}, buffer : FrameBuffers,
          range : {[sampleRate |-> 10, minFreq |-> 1, maxFreq |-> 10]}]
    \cup [fn : {"frequencyToNote"}, frequency : {Num(440), Num(0)}, origin : {NoOrigin}]

\* the detectBeat call on the frame's spectrum returns
DetectBeatCall ==
    /\ utilPc = "ready"
    /\ utilCall.fn = "detectBeat"
    /\ DetectBeat(1, utilCall.frequencyData, utilCall.sensitivity)
    /\ utilResult' = lastCall'[1].info
    /\ utilPc' = "done"
    /\ UNCHANGED <<utilCall, yinVars, playerVars>>

----------------------------------------------------------------------------
(* Playback and the analysis loop: src/unnamed/part_006 (useAudioContext), *)
(* src/src/hooks/useAudioAnalyzer.ts, src/src/store/audioStore.ts.         *)
(* Times are in ticks of a quarter of a second.  A store update made by a       *)
(* handler re-renders synchronously, so the analyzer's start/stop effect   *)
(* is part of the handler that changes isPlaying.                          *)

\* the 0.5 s of the onended test, in ticks
HalfSecond == 2

\* bounds of the playback runs
MaxTime == 3            \* ticks of audioContext.currentTime
MaxPlayerBeats == 2     \* detectBeat calls of the frame consumer

Instances == {"AudioPlayer", "FileUpload", "YouTubeInput"}
Loaders == {"FileUpload", "YouTubeInput"}
Durations == {3}
SeekTargets == {1, 5}
FrameSpectra == {BaselineSpectrum, SpikeSpectrum}
SilentWindow == <<0, 0, 0, 0, 0, 0, 0, 0>>
ToneWindow == <<1, -1, 1, -1, 1, -1, 1, -1>>
FrameWindows == {SilentWindow, ToneWindow}
\* the spectra of the frames the instrument indicator is followed on
IndicatorSpectra == {BaselineSpectrum, FloorSpectrum}
ContextSampleRate == 44100

\* no source; bySeek tells the sources that seek() started from those of play()
NoSource == [set |-> FALSE, ended |-> FALSE, startedAt |-> 0, offset |-> 0,
             expectedEndTime |-> 0, inst |-> "AudioPlayer", bySeek |-> FALSE]
NoData == [set |-> FALSE, data |-> <<>>]

\* audioStore.ts initialState
InitialState ==
    [audioBuffer |-> 0, audioSource |-> NoSource, audioContext |-> FALSE,
     isPlaying |-> FALSE, currentTime |-> 0, frequencyData |-> NoData,
     detectedPitch |-> Null, detectedNote |-> NoNote]

Clamp(x, lo, hi) == IF x < lo THEN lo ELSE IF x > hi THEN hi ELSE x

\* if (animationRef.current) cancelAnimationFrame(animationRef.current)
Cancelled(pending, ref) == IF ref /\ pending > 0 THEN pending - 1 ELSE pending

\* the effect without the cancellations of its cleanup and of its else branch
AnalyzerEffectKeepsFrame(st) ==
    /\ animationRef' =
          IF mounted /\ st.isPlaying # store.isPlaying THEN st.isPlaying ELSE animationRef
    /\ pendingFrames' =
          IF mounted /\ st.isPlaying # store.isPlaying /\ st.isPlaying
          THEN pendingFrames + 1
          ELSE pendingFrames
    /\ analyzerStartTimeRef' =
          IF mounted /\ st.isPlaying # store.isPlaying /\ st.isPlaying /\ st.audioContext
          THEN ctxTime - st.currentTime
          ELSE analyzerStartTimeRef

\* the start/stop effect of useAudioAnalyzer, run when a handler left st as the
\* store: the cleanup of the previous run, then requestAnimationFrame or the cancel
AnalyzerEffect(st) ==
    /\ animationRef' =
          IF mounted /\ st.isPlaying # store.isPlaying THEN st.isPlaying ELSE animationRef
    /\ pendingFrames' =
          IF mounted /\ st.isPlaying # store.isPlaying
          THEN Cancelled(pendingFrames, animationRef) + (IF st.isPlaying THEN 1 ELSE 0)
          ELSE pendingFrames
    /\ analyzerStartTimeRef' =
          IF mounted /\ st.isPlaying # store.isPlaying /\ st.isPlaying /\ st.audioContext
          THEN ctxTime - st.currentTime
          ELSE analyzerStartTimeRef

\* analyser.fftSize = 2048
AnalyserFftSize == 2048

\* INSTRUMENTS: the bands of each instrument id
INSTRUMENTS ==
    [kick |-> <<"subBass", "bass">>,
     bass |-> <<"bass", "lowMid">>,
     guitar |-> <<"lowMid", "mid">>,
     piano |-> <<"lowMid", "mid", "highMid">>,
     saxophone |-> <<"mid", "highMid">>,
     trumpet |-> <<"highMid", "presence">>,
     vocal |-> <<"mid", "highMid">>,
     strings |-> <<"mid", "highMid", "presence">>,
     hihat |-> <<"presence", "brilliance">>]

\* resetLevels: 0 for every instrument
ResetLevels == [id \in DOMAIN INSTRUMENTS |-> Num(0)]

\* Math.min(x, y)
FMin(x, y) == IF IsNaN(x) \/ IsNaN(y) THEN NaN ELSE IF FLt(y, x) THEN y ELSE x

\* the level without Math.min(1, ...)
LevelOfUnclamped(bandEnergies, bands) ==
    FDiv(FDiv(FSum([b \in 1..Len(bands) |-> bandEnergies[bands[b]]]), Num(Len(bands))),
         Num(180))

\* totalEnergy over the instrument's bands; Math.min(1, avgEnergy / 180)
LevelOf(bandEnergies, bands) ==
    FMin(Num(1),
         FDiv(FDiv(FSum([b \in 1..Len(bands) |-> bandEnergies[bands[b]]]), Num(Len(bands))),
              Num(180)))

\* the levels the effect computes from the store's spectrum
LevelsOf(frequencyData) ==
    [id \in DOMAIN INSTRUMENTS |->
        LevelOf(CalculateBandEnergies(frequencyData,
                                      [sampleRate |-> ContextSampleRate,
                                       fftSize |-> AnalyserFftSize]),
                INSTRUMENTS[id])]

\* every spectrum the analysis loop writes to the store, with the levels the
\* effect computes from it
FrameLevels ==
    {[frequencyData |-> f, levels |-> LevelsOf(f)] : f \in FrameSpectra \cup IndicatorSpectra}

\* the levels effect of InstrumentIndicator, run when a handler left st as the store
IndicatorEffect(st) ==
    instrumentLevels' =
        IF ~mounted THEN instrumentLevels
        ELSE IF ~st.frequencyData.set \/ ~st.isPlaying \/ ~st.audioContext
        THEN ResetLevels
        ELSE (CHOOSE row \in FrameLevels :
                  row.frequencyData = st.frequencyData.data).levels

\* the handler's store writes, then the effects of the render that follows
Commit(st) ==
    store' = st /\ AnalyzerEffect(st) /\ IndicatorEffect(st) /\ UNCHANGED mounted

\* the source play() starts
NewSource(st, inst, startOffset) ==
    [set |-> TRUE, ended |-> FALSE, startedAt |-> ctxTime, offset |-> startOffset,
     expectedEndTime |-> st.audioBuffer, inst |-> inst, bySeek |-> FALSE]

CanPlay(st) == st.audioBuffer # 0 /\ st.audioContext

\* the store play(startOffset) leaves, st being the store it runs on
Played(st, inst, startOffset) ==
    IF CanPlay(st)
    THEN [st EXCEPT !.audioSource = NewSource(st, inst, startOffset), !.isPlaying = TRUE]
    ELSE st

\* a source that stop() is called on delivers its onended handler later
Stopped(source) ==
    IF source.set /\ ~source.ended
    THEN {[inst |-> source.inst, expectedEndTime |-> source.expectedEndTime]}
    ELSE {}

\* play(): startOffset defaults to pauseTimeRef.current
Play(inst) ==
    /\ ~store.isPlaying
    /\ Commit(Played(store, inst, pauseTimeRef[inst]))
    /\ startTimeRef' = IF CanPlay(store)
                       THEN [startTimeRef EXCEPT ![inst] = ctxTime - pauseTimeRef[inst]]
                       ELSE startTimeRef
    /\ UNCHANGED <<ctxTime, pauseTimeRef, pendingEnded, loading, timeDomainDataRef,
                   preJump, staleUsed, beatVars, yinVars, utilVars>>

\* pause()
Pause(inst) ==
    /\ store.isPlaying
    /\ IF store.audioSource.set /\ store.audioContext
       THEN /\ pauseTimeRef' = [pauseTimeRef EXCEPT ![inst] = ctxTime - startTimeRef[inst]]
            /\ pendingEnded' = pendingEnded \cup Stopped(store.audioSource)
            /\ Commit([store EXCEPT !.audioSource = NoSource, !.isPlaying = FALSE,
                                    !.currentTime = ctxTime - startTimeRef[inst]])
       ELSE UNCHANGED <<pauseTimeRef, pendingEnded, store, animationRef, pendingFrames,
                        mounted, analyzerStartTimeRef, instrumentLevels>>
    /\ UNCHANGED <<ctxTime, startTimeRef, loading, timeDomainDataRef, preJump, staleUsed,
                   beatVars, yinVars, utilVars>>

\* the store after seek() called play(): the source it started is marked
Sought(st) ==
    IF CanPlay(st)
    THEN [st EXCEPT !.audioSource.bySeek = TRUE]
    ELSE st

\* togglePlay() of the player controls
TogglePlay == Pause("AudioPlayer") \/ Play("AudioPlayer")

\* seek(time) of the player controls
Seek(time) ==
    /\ store.audioBuffer # 0
    /\ pauseTimeRef' =
          [pauseTimeRef EXCEPT !["AudioPlayer"] = Clamp(time, 0, store.audioBuffer)]
    /\ IF store.isPlaying
       THEN /\ Commit(Sought(Played([store EXCEPT
                                       !.currentTime = Clamp(time, 0, store.audioBuffer)],
                                    "AudioPlayer", Clamp(time, 0, store.audioBuffer))))
            /\ startTimeRef' =
                  IF CanPlay(store)
                  THEN [startTimeRef EXCEPT
                          !["AudioPlayer"] = ctxTime - Clamp(time, 0, store.audioBuffer)]
                  ELSE startTimeRef
       ELSE /\ Commit([store EXCEPT !.currentTime = Clamp(time, 0, store.audioBuffer)])
            /\ UNCHANGED startTimeRef
    /\ preJump' = Len(energyHistory)
    /\ UNCHANGED <<ctxTime, pendingEnded, loading, timeDomainDataRef, staleUsed,
                   beatVars, yinVars, utilVars>>

\* stop() of the player controls
Stop ==
    /\ pendingEnded' = pendingEnded \cup Stopped(store.audioSource)
    /\ pauseTimeRef' = [pauseTimeRef EXCEPT !["AudioPlayer"] = 0]
    /\ Commit([store EXCEPT !.audioSource = NoSource, !.isPlaying = FALSE,
                            !.currentTime = 0])
    /\ UNCHANGED <<ctxTime, startTimeRef, loading, timeDomainDataRef, preJump, staleUsed,
                   beatVars, yinVars, utilVars>>

\* loadAudioFile / loadAudioUrl up to the first await: initAudioContext()
LoadStart(inst) ==
    /\ inst \notin loading
    /\ loading' = loading \cup {inst}
    /\ Commit([store EXCEPT !.audioContext = TRUE])
    /\ UNCHANGED <<ctxTime, pauseTimeRef, startTimeRef, pendingEnded, timeDomainDataRef,
                   preJump, staleUsed, beatVars, yinVars, utilVars>>

\* loadAudioFile / loadAudioUrl after decodeAudioData resolved with a buffer
LoadDone(inst, duration) ==
    /\ inst \in loading
    /\ loading' = loading \ {inst}
    /\ pauseTimeRef' = [pauseTimeRef EXCEPT ![inst] = 0]
    /\ Commit([store EXCEPT !.audioBuffer = duration, !.currentTime = 0])
    /\ preJump' = Len(energyHistory)
    /\ UNCHANGED <<ctxTime, startTimeRef, pendingEnded, timeDomainDataRef, staleUsed,
                   beatVars, yinVars, utilVars>>

\* loadAudioFile / loadAudioUrl when fetching or decoding throws
LoadFailed(inst) ==
    /\ inst \in loading
    /\ loading' = loading \ {inst}
    /\ UNCHANGED <<store, ctxTime, pauseTimeRef, startTimeRef, pendingEnded, animationRef,
                   pendingFrames, mounted, timeDomainDataRef, analyzerStartTimeRef,
                   preJump, staleUsed, instrumentLevels, beatVars, yinVars, utilVars>>

\* source.onended of a source play() of `inst` started
OnEnded(inst, expectedEndTime, st) ==
    IF ctxTime - startTimeRef[inst] >= expectedEndTime - HalfSecond
    THEN /\ Commit([st EXCEPT !.isPlaying = FALSE, !.currentTime = 0])
         /\ pauseTimeRef' = [pauseTimeRef EXCEPT ![inst] = 0]
    ELSE /\ Commit(st)
         /\ UNCHANGED pauseTimeRef

\* the playing source has reached the end of its buffer
EndDue ==
    /\ store.audioSource.set /\ ~store.audioSource.ended
    /\ store.audioSource.offset + (ctxTime - store.audioSource.startedAt)
          >= store.audioSource.expectedEndTime

\* the playing source ends by itself and its onended handler runs
SourceEnded ==
    /\ EndDue
    /\ OnEnded(store.audioSource.inst, store.audioSource.expectedEndTime,
               [store EXCEPT !.audioSource.ended = TRUE])
    /\ UNCHANGED <<ctxTime, startTimeRef, pendingEnded, loading, timeDomainDataRef,
                   preJump, staleUsed, beatVars, yinVars, utilVars>>

\* the onended handler of a source that pause() or stop() stopped runs
StoppedSourceEnded ==
    \E e \in pendingEnded :
        /\ pendingEnded' = pendingEnded \ {e}
        /\ OnEnded(e.inst, e.expectedEndTime, store)
        /\ UNCHANGED <<ctxTime, startTimeRef, loading, timeDomainDataRef, preJump,
                       staleUsed, beatVars, yinVars, utilVars>>

\* audioContext.currentTime advances; ended events are delivered within the tick
Tick ==
    /\ store.audioContext
    /\ ctxTime < MaxTime
    /\ pendingEnded = {} /\ ~EndDue
    /\ ctxTime' = ctxTime + 1
    /\ UNCHANGED <<store, pauseTimeRef, startTimeRef, pendingEnded, loading, animationRef,
                   pendingFrames, mounted, timeDomainDataRef, analyzerStartTimeRef,
                   preJump, staleUsed, instrumentLevels, beatVars, yinVars, utilVars>>

\* the store after analyzeFrame captured the spectrum and detected `pitch`
Analyzed(frequencyData, pitch) ==
    [store EXCEPT !.frequencyData = [set |-> TRUE, data |-> frequencyData],
                  !.detectedPitch = pitch,
                  !.detectedNote = IF pitch.k \in {"null", "nan"} \/ pitch = Num(0)
                                   THEN NoNote
                                   ELSE FrequencyToNote(pitch)]

\* analyzeFrame: the requested frame callback runs and requests the next one
AnalyzeFrame(frequencyData, window) ==
    /\ pendingFrames > 0
    /\ IF store.audioContext
       THEN /\ timeDomainDataRef' = [set |-> TRUE, data |-> window]
            /\ \E st \in {Analyzed(frequencyData,
                                   DetectPitchYIN(window, ContextSampleRate,
                                                  DefaultThreshold))} :
                  store' = st /\ IndicatorEffect(st)
       ELSE UNCHANGED <<timeDomainDataRef, store, instrumentLevels>>
    /\ animationRef' = TRUE
    /\ pendingFrames' = (pendingFrames - 1) + 1
    /\ UNCHANGED <<ctxTime, pauseTimeRef, startTimeRef, pendingEnded, loading, mounted,
                   analyzerStartTimeRef, preJump, staleUsed, beatVars, yinVars, utilVars>>

\* the components unmount: the cleanup of the start/stop effect runs
Unmount ==
    /\ mounted
    /\ mounted' = FALSE
    /\ pendingFrames' = Cancelled(pendingFrames, animationRef)
    /\ animationRef' = FALSE
    /\ UNCHANGED <<store, ctxTime, pauseTimeRef, startTimeRef, pendingEnded, loading,
                   timeDomainDataRef, analyzerStartTimeRef, preJump, staleUsed,
                   instrumentLevels, beatVars, yinVars, utilVars>>

\* updateCurrentTime, run by the interval of 50 ms while isPlaying
UpdateCurrentTime ==
    /\ mounted /\ store.isPlaying /\ store.audioContext
    /\ IF Abs((ctxTime - analyzerStartTimeRef) - store.currentTime) > HalfSecond
       THEN /\ analyzerStartTimeRef' = ctxTime - store.currentTime
            /\ UNCHANGED <<store, animationRef, pendingFrames, mounted, instrumentLevels>>
       ELSE Commit([store EXCEPT !.currentTime = ctxTime - analyzerStartTimeRef])
    /\ UNCHANGED <<ctxTime, pauseTimeRef, startTimeRef, pendingEnded, loading,
                   timeDomainDataRef, preJump, staleUsed, beatVars, yinVars, utilVars>>

\* the interval has run since the store or the clock changed last
TimeUpdated ==
    (mounted /\ store.isPlaying /\ store.audioContext) =>
        /\ Abs((ctxTime - analyzerStartTimeRef) - store.currentTime) <= HalfSecond
        /\ store.currentTime = ctxTime - analyzerStartTimeRef

Max(a, b) == IF a > b THEN a ELSE b

\* a per-frame consumer passes the store's spectrum to detectBeat while playing
BeatFrame ==
    /\ store.isPlaying /\ store.frequencyData.set
    /\ Len(callLog[1]) < MaxPlayerBeats
    /\ DetectBeat(1, store.frequencyData.data, DefaultSensitivity)
    /\ preJump' = IF Len(energyHistory) + 1 > HISTORY_SIZE THEN Max(preJump - 1, 0)
                  ELSE preJump
    /\ staleUsed' = preJump'
    /\ UNCHANGED <<store, ctxTime, pauseTimeRef, startTimeRef, pendingEnded, loading,
                   animationRef, pendingFrames, mounted, timeDomainDataRef,
                   analyzerStartTimeRef, instrumentLevels, yinVars, utilVars>>

PlayerIdle ==
    /\ store = InitialState
    /\ ctxTime = 0
    /\ pauseTimeRef = [i \in Instances |-> 0]
    /\ startTimeRef = [i \in Instances |-> 0]
    /\ pendingEnded = {}
    /\ loading = {}
    /\ animationRef = FALSE
    /\ pendingFrames = 0
    /\ mounted = TRUE
    /\ timeDomainDataRef = NoData
    /\ analyzerStartTimeRef = 0
    /\ preJump = 0
    /\ staleUsed = 0
    /\ instrumentLevels = ResetLevels

----------------------------------------------------------------------------
(* Specifications *)

InitBeat == BeatIdle /\ YinIdle /\ UtilIdle /\ PlayerIdle

\* one analysis session driving the beat detector
NextBeat ==
    \/ \E f \in Spectra, s \in Sensitivities :
          DetectBeat(1, f, s) /\ UNCHANGED <<yinVars, utilVars, playerVars>>
    \/ ResetBeatDetection(1) /\ UNCHANGED <<yinVars, utilVars, playerVars>>

SpecBeat == InitBeat /\ [][NextBeat]_vars

\* two playback sessions of one process, each calling detectBeat and
\* resetBeatDetection for itself; both reach the one module-level energyHistory
NextSessions ==
    \/ \E c \in Callers, f \in Spectra, s \in Sensitivities :
          /\ Len(callLog[1]) + Len(callLog[2]) < MaxSessionCalls
          /\ DetectBeat(c, f, s)
          /\ UNCHANGED <<yinVars, utilVars, playerVars>>
    \/ \E c \in Callers : ResetBeatDetection(c) /\ UNCHANGED <<yinVars, utilVars, playerVars>>

SpecSessions == InitBeat /\ [][NextSessions]_vars

InitYin ==
    /\ BeatIdle
    /\ UtilIdle
    /\ PlayerIdle
    /\ yinCall \in [buffer : Windows, sampleRate : SampleRates, threshold : Thresholds]
    /\ yinResult = Null
    /\ yinPc = "ready"

NextYin == YinDetect

\* detectPitchYIN applied to every window, sample rate and threshold of the bounds
SpecYin == InitYin /\ [][NextYin]_vars

InitNotes ==
    /\ BeatIdle
    /\ YinIdle
    /\ PlayerIdle
    /\ utilCall \in NoteCalls
    /\ utilResult = Null
    /\ utilPc = "ready"

NextNotes == FrequencyToNoteCall

\* frequencyToNote applied to the piano notes' frequencies, to the frequencies of
\* the semitone offsets of the bound and to the frequencies of RawFrequencies
SpecNotes == InitNotes /\ [][NextNotes]_vars

InitBins ==
    /\ BeatIdle
    /\ YinIdle
    /\ PlayerIdle
    /\ utilCall \in BinCalls
    /\ utilResult = Null
    /\ utilPc = "ready"

NextBins == FrequencyToBinCall

\* frequencyToBin applied to binToFrequency of every bin, sample rate and size of
\* the bounds
SpecBins == InitBins /\ [][NextBins]_vars

InitPeaks ==
    /\ BeatIdle
    /\ YinIdle
    /\ PlayerIdle
    /\ utilCall \in PeakCalls
    /\ utilResult = Null
    /\ utilPc = "ready"

NextPeaks == GetFrequencyPeaksCall

\* getFrequencyPeaks applied to every spectrum and argument of the bounds
SpecPeaks == InitPeaks /\ [][NextPeaks]_vars

InitDominant ==
    /\ BeatIdle
    /\ YinIdle
    /\ PlayerIdle
    /\ utilCall \in DominantCalls
    /\ utilResult = Null
    /\ utilPc = "ready"

NextDominant == GetDominantFrequencyCall

\* getDominantFrequency applied to every spectrum and argument of the bounds
SpecDominant == InitDominant /\ [][NextDominant]_vars

InitBands ==
    /\ BeatIdle
    /\ YinIdle
    /\ PlayerIdle
    /\ utilCall \in BandCalls
    /\ utilResult = Null
    /\ utilPc = "ready"

NextBands == CalculateBandEnergiesCall

\* calculateBandEnergies applied to every spectrum and format of the bounds
SpecBands == InitBands /\ [][NextBands]_vars

InitCentroid ==
    /\ BeatIdle
    /\ YinIdle
    /\ PlayerIdle
    /\ utilCall \in CentroidCalls
    /\ utilResult = Null
    /\ utilPc = "ready"

NextCentroid == CalculateSpectralCentroidCall

\* calculateSpectralCentroid applied to every spectrum and format of the bounds
SpecCentroid == InitCentroid /\ [][NextCentroid]_vars

InitLags ==
    /\ BeatIdle
    /\ YinIdle
    /\ PlayerIdle
    /\ utilCall \in LagCalls
    /\ utilResult = Null
    /\ utilPc = "ready"

NextLags == DetectPitchAutocorrelationCall

\* detectPitchAutocorrelation applied to every window and range of the bounds
SpecLags == InitLags /\ [][NextLags]_vars

InitFrame ==
    /\ BeatIdle
    /\ PlayerIdle
    /\ yinCall \in [buffer : {SilentWindow, ToneWindow}, sampleRate : {ContextSampleRate},
                    threshold : {DefaultThreshold}]
    /\ yinResult = Null
    /\ yinPc = "ready"
    /\ utilCall \in FrameCalls
    /\ utilResult = Null
    /\ utilPc = "ready"

\* every analysis function called once, after up to MaxFrameCalls detectBeat calls
NextFrame ==
    \/ \E f \in FrameInputs :
          /\ Len(callLog[1]) < MaxFrameCalls
          /\ utilPc = "ready"
          /\ DetectBeat(1, f, DefaultSensitivity)
          /\ UNCHANGED <<yinVars, utilVars, playerVars>>
    \/ DetectBeatCall
    \/ GetDominantFrequencyCall
    \/ GetFrequencyPeaksCall
    \/ CalculateSpectralCentroidCall
    \/ CalculateBandEnergiesCall
    \/ YinDetect
    \/ DetectPitchAutocorrelationCall
    \/ FrequencyToNoteCall

SpecFrame == InitFrame /\ [][NextFrame]_vars

InitPlayer == BeatIdle /\ YinIdle /\ UtilIdle /\ PlayerIdle

\* the application: the loaders, the player controls, the audio clock, the sources'
\* ended events and the analysis loop
NextPlayer ==
    \/ TogglePlay
    \/ \E t \in SeekTargets : Seek(t)
    \/ Stop
    \/ \E i \in Loaders : LoadStart(i)
    \/ \E i \in Loaders, d \in Durations : LoadDone(i, d)
    \/ \E i \in Loaders : LoadFailed(i)
    \/ SourceEnded
    \/ StoppedSourceEnded
    \/ Tick
    \/ \E f \in FrameSpectra, w \in FrameWindows : AnalyzeFrame(f, w)

SpecPlayer == InitPlayer /\ [][NextPlayer]_vars

\* the application on frames quiet and loud enough to tell the instrument levels apart
NextIndicator ==
    \/ TogglePlay
    \/ \E t \in SeekTargets : Seek(t)
    \/ Stop
    \/ \E i \in Loaders : LoadStart(i)
    \/ \E i \in Loaders, d \in Durations : LoadDone(i, d)
    \/ \E i \in Loaders : LoadFailed(i)
    \/ SourceEnded
    \/ StoppedSourceEnded
    \/ Tick
    \/ \E f \in IndicatorSpectra : AnalyzeFrame(f, SilentWindow)

SpecIndicator == InitPlayer /\ [][NextIndicator]_vars

\* the application until its components unmount: the controls act while they
\* are mounted; loads under way, ended events and the clock go on
NextLoop ==
    \/ mounted /\ TogglePlay
    \/ \E t \in SeekTargets : mounted /\ Seek(t)
    \/ mounted /\ Stop
    \/ \E i \in Loaders : mounted /\ LoadStart(i)
    \/ \E i \in Loaders, d \in Durations : LoadDone(i, d)
    \/ \E i \in Loaders : LoadFailed(i)
    \/ SourceEnded
    \/ StoppedSourceEnded
    \/ Tick
    \/ \E f \in FrameSpectra, w \in FrameWindows : AnalyzeFrame(f, w)
    \/ Unmount

SpecLoop == InitPlayer /\ [][NextLoop]_vars

\* the application with the interval that updates currentTime: the interval is
\* shorter than a tick, so it runs before the clock moves on
NextClock ==
    \/ TogglePlay
    \/ \E t \in SeekTargets : Seek(t)
    \/ Stop
    \/ \E i \in Loaders : LoadStart(i)
    \/ \E i \in Loaders, d \in Durations : LoadDone(i, d)
    \/ \E i \in Loaders : LoadFailed(i)
    \/ SourceEnded
    \/ StoppedSourceEnded
    \/ TimeUpdated /\ Tick
    \/ UpdateCurrentTime

SpecClock == InitPlayer /\ [][NextClock]_vars

\* the application with a per-frame consumer of detectBeat attached (the
\* repository exports detectBeat and resetBeatDetection and calls neither)
NextPlayerBeat == NextPlayer \/ BeatFrame

SpecPlayerBeat == InitPlayer /\ [][NextPlayerBeat]_vars

----------------------------------------------------------------------------
(* Claims about the beat detector                                          *)

Min(a, b) == IF a < b THEN a ELSE b

\* the last n entries of s
LastN(s, n) == SubSeq(s, Len(s) - n + 1, Len(s))

\* C1: after any sequence of detectBeat and resetBeatDetection calls the beat
\* energy history holds at most 43 entries.
C1_HistoryBounded == Len(energyHistory) <= HISTORY_SIZE

\* more calls than the cap were made since the reset and the history is full
C1_Witness == Len(callLog[1]) > HISTORY_SIZE /\ Len(energyHistory) = HISTORY_SIZE

\* C2: the first detectBeat call after a resetBeatDetection, on a well-formed
\* spectrum, returns averageEnergy equal to its own energy, and the history then
\* has length 1.
C2_FirstCallAfterReset ==
    \A c \in {1} :
        (afterReset[c] /\ Len(callLog[c]) = 1 /\ WellFormed(lastCall[c].frequencyData))
            => /\ FEq(lastCall[c].info.averageEnergy, lastCall[c].info.energy)
               /\ Len(energyHistory) = 1

\* a reset emptied a non-empty history and one well-formed call followed
C2_Witness ==
    /\ afterReset[1] /\ Len(callLog[1]) = 1
    /\ lastCall[1].frequencyData = SpikeSpectrum
    /\ lastCall[1].info.averageEnergy = Num(80)

\* C3: after n detectBeat calls since the last reset the history is the energies
\* of the most recent min(n, 43) calls, in call order.
C3_HistoryIsRecentCalls ==
    energyHistory = LastN(callLog[1], Min(Len(callLog[1]), HISTORY_SIZE))

\* an off-baseline energy pushed first has been evicted, or one pushed last is kept
C3_Witness ==
    /\ Len(callLog[1]) > HISTORY_SIZE
    /\ callLog[1][1] # BaselineEnergy
    /\ \A i \in 1..Len(energyHistory) : energyHistory[i] = BaselineEnergy

\* the formula of line 154 over the returned values, with the two examples that
\* hold at any sensitivity
BeatFormulaHolds(call) ==
    /\ call.info.averageEnergy = AverageEnergy(energyHistory)
    /\ call.info.isBeat <=>
          (/\ FGt(call.info.energy, FMul(call.info.averageEnergy, call.sensitivity))
           /\ FGt(call.info.energy, Num(50)))
    /\ FLe(call.info.energy, Num(50)) => ~call.info.isBeat
    /\ (/\ callLog[1] = [i \in 1..11 |-> IF i <= 10 THEN Num(20) ELSE Num(80)]
        /\ call.sensitivity = Rat(13, 10)) => call.info.isBeat

\* C4: isBeat is true exactly when energy > averageEnergy * sensitivity and
\* energy > 50, averageEnergy being the mean of the history after the push; a call
\* of energy at most 50 is no beat, energy 80 after ten calls of energy 20 at
\* sensitivity 1.3 is a beat, and at a sensitivity of at least 1 a call whose
\* energy equals the rolling average is no beat.
C4_BeatFormula ==
    lastCall[1].called =>
        /\ BeatFormulaHolds(lastCall[1])
        /\ (/\ FEq(lastCall[1].info.energy, lastCall[1].info.averageEnergy)
            /\ FLe(Num(1), lastCall[1].sensitivity)) => ~lastCall[1].info.isBeat

\* C4 as stated: the same, and a call whose energy equals the rolling average is
\* no beat at any sensitivity.
C4_EqualAverageNeverBeat ==
    lastCall[1].called =>
        /\ BeatFormulaHolds(lastCall[1])
        /\ FEq(lastCall[1].info.energy, lastCall[1].info.averageEnergy)
              => ~lastCall[1].info.isBeat

\* energy 80 after ten calls of energy 20, sensitivity 1.3, reported as a beat
C4_Witness ==
    /\ callLog[1] = [i \in 1..11 |-> IF i <= 10 THEN Num(20) ELSE Num(80)]
    /\ lastCall[1].sensitivity = Rat(13, 10)
    /\ lastCall[1].info.isBeat

\* C5: detectBeat on an empty or an all-zero spectrum returns energy 0, a finite
\* averageEnergy and isBeat = false.
C5_EmptyOrZeroDegrades ==
    LET call == lastCall[1]
    IN  (call.called /\ call.frequencyData \in {EmptySpectrum, ZeroSpectrum})
          => /\ call.info.energy = Num(0)
             /\ IsFinite(call.info.averageEnergy)
             /\ ~call.info.isBeat

\* the mean of the finite entries of a window (NaN when it has none)
FiniteEntries(s) == SelectSeq(s, IsFinite)
WellFormedMean(s) == FDiv(FSum(FiniteEntries(s)), Num(Len(FiniteEntries(s))))

\* C6: after a detectBeat call on a malformed spectrum, every later call on a
\* well-formed spectrum returns a finite averageEnergy and is a beat whenever its
\* energy exceeds 50 and sensitivity times the mean of the well-formed energies of
\* the window.
C6_BadFrameDoesNotStick ==
    LET call == lastCall[1]
        log == callLog[1]
    IN  (/\ call.called /\ WellFormed(call.frequencyData)
         /\ \E i \in 1..(Len(log) - 1) : IsNaN(log[i]))
          => /\ IsFinite(call.info.averageEnergy)
             /\ (/\ FGt(call.info.energy, Num(50))
                 /\ FGt(call.info.energy,
                        FMul(WellFormedMean(energyHistory), call.sensitivity)))
                   => call.info.isBeat

\* what caller c would be returned by a detector that held only c's own calls
OwnWindow(c) == LastN(callLog[c], Min(Len(callLog[c]), HISTORY_SIZE))

\* C7: the beat history is owned per playback session: when two sessions
\* interleave their detectBeat and resetBeatDetection calls, the averageEnergy and
\* isBeat a session receives depend only on its own calls since its own reset.
C7_SessionsDoNotInterfere ==
    \A c \in Callers :
        lastCall[c].called =>
            /\ lastCall[c].info.averageEnergy = AverageEnergy(OwnWindow(c))
            /\ lastCall[c].info.isBeat =
                  IsBeat(lastCall[c].info.energy, AverageEnergy(OwnWindow(c)),
                         lastCall[c].sensitivity)

----------------------------------------------------------------------------
(* Claims about the pitch detector                                         *)

\* C10: detectPitchYIN on an all-zero sample window of any length (0 and lengths
\* below 6 included) and any sample rate returns null, never 0 Hz and never NaN.
C10_SilenceYieldsNoPitch ==
    (yinPc = "done" /\ AllZero(yinCall.buffer)) => yinResult = Null

\* an all-zero window long enough for the threshold search to examine lags
C10_Witness ==
    /\ yinPc = "done" /\ AllZero(yinCall.buffer) /\ YinLength(yinCall.buffer) > 2
    /\ yinResult = Null

\* C11: for every sample window and every threshold detectPitchYIN returns null
\* or a finite, strictly positive frequency; never 0, NaN or an infinite value.
C11_PitchNullOrPositive ==
    yinPc = "done" =>
        \/ yinResult = Null
        \/ IsFinite(yinResult) /\ yinResult.n > 0

\* the lags from 2 on whose normalized difference is below the threshold
BelowThreshold(yin, threshold) ==
    {t \in 2..(Len(yin) - 1) : FLt(yin[t + 1], threshold)}

\* the smallest member of a non-empty set of lags
Least(S) == CHOOSE t \in S : \A u \in S : t <= u

\* the lags from t0 on at which the descent stops
DescentEnds(yin, t0) ==
    {t \in t0..(Len(yin) - 1) : t = Len(yin) - 1 \/ ~FLt(yin[t + 2], yin[t + 1])}

\* the locked lag as C12 states it
LockedLag(yin, threshold) ==
    Least(DescentEnds(yin, Least(BelowThreshold(yin, threshold))))

\* C12: the locked lag of detectPitchYIN is the first lag t >= t0 whose successor's
\* value is not smaller (or the last lag), t0 being the smallest lag >= 2 whose
\* normalized difference is below the threshold; with no such lag the result is
\* null; lags 0 and 1 are never selected.
C12_LockedLag ==
    yinPc = "done" =>
        IF BelowThreshold(YinBuffer(yinCall.buffer), yinCall.threshold) = {}
        THEN /\ TauEstimate(YinBuffer(yinCall.buffer), yinCall.threshold) = -1
             /\ yinResult = Null
        ELSE /\ TauEstimate(YinBuffer(yinCall.buffer), yinCall.threshold)
                  = LockedLag(YinBuffer(yinCall.buffer), yinCall.threshold)
             /\ TauEstimate(YinBuffer(yinCall.buffer), yinCall.threshold) >= 2
             /\ yinResult =
                  FDiv(Num(yinCall.sampleRate),
                       BetterTau(YinBuffer(yinCall.buffer),
                                 LockedLag(YinBuffer(yinCall.buffer), yinCall.threshold)))

\* a call whose search descended from the first lag below the threshold to a later one
C12_Witness ==
    /\ yinPc = "done"
    /\ BelowThreshold(YinBuffer(yinCall.buffer), yinCall.threshold) # {}
    /\ TauEstimate(YinBuffer(yinCall.buffer), yinCall.threshold)
          > Least(BelowThreshold(YinBuffer(yinCall.buffer), yinCall.threshold))
    /\ yinResult # Null

----------------------------------------------------------------------------
(* Claims about autocorrelation pitch detection *)

\* detectPitchAutocorrelation has returned
LagReturned == utilPc = "done" /\ utilCall.fn = "detectPitchAutocorrelation"

\* C23: every lag detectPitchAutocorrelation examines lies in
\* [sampleRate / maxFreq, sampleRate / minFreq], so a pitch it returns lies in
\* [minFreq, maxFreq].
C23_LagsInRange ==
    LagReturned =>
        /\ \A period \in ExaminedPeriods(utilCall.buffer, utilCall.range) :
              /\ utilCall.range.sampleRate <= period * utilCall.range.maxFreq
              /\ period * utilCall.range.minFreq <= utilCall.range.sampleRate
        /\ utilResult # Null =>
              /\ FLe(Num(utilCall.range.minFreq), utilResult)
              /\ FLe(utilResult, Num(utilCall.range.maxFreq))

\* the upper half of C23: no lag above sampleRate / minFreq is examined and no
\* pitch below minFreq is returned
C23_NeverBelowMinFreq ==
    LagReturned =>
        /\ \A period \in ExaminedPeriods(utilCall.buffer, utilCall.range) :
              period * utilCall.range.minFreq <= utilCall.range.sampleRate
        /\ utilResult # Null => FLe(Num(utilCall.range.minFreq), utilResult)

\* lag 2 is examined for the range 2.5 .. 10 and the pitch 5 is above maxFreq 4
C23_AboveMaxFreq ==
    /\ LagReturned
    /\ utilCall.buffer = <<10, 0, 10, 0, 10, 0>>
    /\ utilCall.range = [sampleRate |-> 10, minFreq |-> 1, maxFreq |-> 4]
    /\ 2 \in ExaminedPeriods(utilCall.buffer, utilCall.range)
    /\ utilResult = Num(5)

\* the greatest normalized correlation of the examined lags is c
IsBestCorrelation(call, c) ==
    /\ \E period \in ExaminedPeriods(call.buffer, call.range) :
          Correlation(call.buffer, period) = c
    /\ \A period \in ExaminedPeriods(call.buffer, call.range) :
          FLe(Correlation(call.buffer, period), c)

\* the examined lags whose correlation is the greatest
BestPeriods(call) ==
    {period \in ExaminedPeriods(call.buffer, call.range) :
        IsBestCorrelation(call, Correlation(call.buffer, period))}

\* what C24 says the call returns
PitchOfBestLag(call) ==
    IF ExaminedPeriods(call.buffer, call.range) = {} THEN Null
    ELSE IF \A period \in ExaminedPeriods(call.buffer, call.range) :
               FLt(Correlation(call.buffer, period), Rat(1, 100))
    THEN Null
    ELSE FDiv(Num(call.range.sampleRate), Num(Least(BestPeriods(call))))

\* C24: detectPitchAutocorrelation returns null when no lag of the search
\* range is valid or the best normalized correlation is below 0.01 (hence for
\* every all-zero or empty buffer), and otherwise sampleRate / L for the lag L
\* of greatest correlation, the smallest such lag on ties.
C24_BestLagOrNone ==
    LagReturned => utilResult = PitchOfBestLag(utilCall)

\* the statement of C24 for the calls that do not examine lag 0
C24_BestLagOrNoneFromLagOne ==
    (LagReturned /\ MinPeriod(utilCall.range) >= 1) => utilResult = PitchOfBestLag(utilCall)

\* lags 1 and 2 tie at the greatest correlation and the pitch of lag 1 is returned
C24_TieReturned ==
    /\ LagReturned
    /\ utilCall.buffer = <<10, 10, 10, 10, 10>>
    /\ utilCall.range = [sampleRate |-> 10, minFreq |-> 1, maxFreq |-> 10]
    /\ BestPeriods(utilCall) = {1, 2}
    /\ utilResult = Num(10)

\* lag 0 is examined and wins: a constant window with correlation 1 yields null
C24_LagZeroWins ==
    /\ LagReturned
    /\ utilCall.buffer = <<10, 10, 10, 10, 10>>
    /\ utilCall.range = [sampleRate |-> 10, minFreq |-> 1, maxFreq |-> 20]
    /\ BestPeriods(utilCall) = {0, 1, 2}
    /\ utilResult = Null

----------------------------------------------------------------------------
(* Claims about the note mapping                                           *)

C14_NoteOrNone ==
    (utilPc = "done" /\ utilCall.fn = "frequencyToNote") =>
        IF InvalidFrequency(utilCall.frequency)
        THEN utilResult = NoNote
        ELSE utilResult.set /\ utilResult.note \in {NOTE_NAMES[i] : i \in 1..12}

----------------------------------------------------------------------------
(* Claims about the spectrum utilities                                     *)

\* C15: for every positive sampleRate, positive transformSize and non-negative
\* integer bin, frequencyToBin(binToFrequency(bin, sr, n), sr, n) differs from bin
\* by at most 1.
C15_BinRoundTrip ==
    (utilPc = "done" /\ utilCall.fn = "frequencyToBin") =>
        /\ IsFinite(utilResult) /\ utilResult.d = 1
        /\ Abs(utilResult.n - utilCall.bin) <= 1

\* a bin whose frequency is no integer, converted back
C15_Witness ==
    /\ utilPc = "done" /\ utilCall.fn = "frequencyToBin"
    /\ utilCall.bin = 7 /\ utilCall.frequency.d > 1
    /\ utilResult = Num(7)

\* the bins C16 lets be peaks: strictly interior to [bin(minFreq), bin(maxFreq)),
\* inside the spectrum with both neighbours, above both of them and the threshold
Qualifying(call) ==
    {i \in 0..(Len(call.frequencyData) - 1) :
        /\ BinOf(call.range.minFreq, call.format) < i
        /\ i < BinOf(call.range.maxFreq, call.format) - 1
        /\ i >= 1 /\ i + 1 <= Len(call.frequencyData) - 1
        /\ call.frequencyData[i + 1] > call.frequencyData[i]
        /\ call.frequencyData[i + 1] > call.frequencyData[i + 2]
        /\ call.frequencyData[i + 1] > call.threshold}

\* the peak C16 and C17 expect of bin i
PeakOfBin(call, i) ==
    [frequency |-> Rat(i * call.format.sampleRate, call.format.fftSize),
     amplitude |-> call.frequencyData[i + 1]]

\* C16: getFrequencyPeaks returns a peak for bin i only if i is strictly interior
\* to [bin(minFreq), bin(maxFreq)), inside the spectrum, strictly above both
\* neighbours and the threshold; when at most numPeaks bins qualify each of them is
\* returned, and a spectrum with exactly one such bin k yields exactly the peak
\* (binToFrequency(k), spectrum[k]).
C16_PeaksQualify ==
    (utilPc = "done" /\ utilCall.fn = "getFrequencyPeaks") =>
        /\ \A j \in 1..Len(utilResult) :
              \E i \in Qualifying(utilCall) : utilResult[j] = PeakOfBin(utilCall, i)
        /\ Cardinality(Qualifying(utilCall)) <= utilCall.numPeaks =>
              /\ Len(utilResult) = Cardinality(Qualifying(utilCall))
              /\ \A i \in Qualifying(utilCall) :
                    \E j \in 1..Len(utilResult) : utilResult[j] = PeakOfBin(utilCall, i)
        /\ \A k \in Qualifying(utilCall) :
              Qualifying(utilCall) = {k} => utilResult = <<PeakOfBin(utilCall, k)>>

\* one local maximum above the threshold among several bins that are not
C16_Witness ==
    /\ utilPc = "done" /\ utilCall.fn = "getFrequencyPeaks"
    /\ utilCall.frequencyData = <<0, 120, 200, 120, 200, 200>>
    /\ utilCall.format.fftSize = 16 /\ utilCall.range = DefaultRange
    /\ utilCall.threshold = 150
    /\ utilResult = <<[frequency |-> Num(1000), amplitude |-> 200]>>

\* peak a comes before peak b: the larger amplitude, or the lower bin of equals
Before(a, b) ==
    \/ a.amplitude > b.amplitude
    \/ a.amplitude = b.amplitude /\ FLt(a.frequency, b.frequency)

\* C17: the sequence getFrequencyPeaks returns has at most numPeaks elements, is
\* ordered by non-increasing amplitude with peaks of equal amplitude in ascending
\* bin order, and holds the numPeaks largest qualifying peaks: every qualifying
\* bin left out comes after every peak returned.
C17_PeaksOrdered ==
    (utilPc = "done" /\ utilCall.fn = "getFrequencyPeaks") =>
        /\ Len(utilResult) <= utilCall.numPeaks
        /\ Len(utilResult) = Min(utilCall.numPeaks, Cardinality(Qualifying(utilCall)))
        /\ \A j \in 1..(Len(utilResult) - 1) : Before(utilResult[j], utilResult[j + 1])
        /\ \A i \in Qualifying(utilCall) :
              \/ \E j \in 1..Len(utilResult) : utilResult[j] = PeakOfBin(utilCall, i)
              \/ \A j \in 1..Len(utilResult) :
                    Before(utilResult[j], PeakOfBin(utilCall, i))

\* two peaks of equal amplitude and room for one: the lower bin is kept
C17_Witness ==
    /\ utilPc = "done" /\ utilCall.fn = "getFrequencyPeaks"
    /\ utilCall.frequencyData = <<0, 200, 0, 200, 0, 0>>
    /\ utilCall.format.fftSize = 16 /\ utilCall.range = DefaultRange
    /\ utilCall.numPeaks = 1
    /\ utilResult = <<[frequency |-> Num(500), amplitude |-> 200]>>

\* the bins of [bin(minFreq), bin(maxFreq)) that lie inside the spectrum
Scanned(call) ==
    {i \in 0..(Len(call.frequencyData) - 1) :
        /\ BinOf(call.range.minFreq, call.format) <= i
        /\ i < BinOf(call.range.maxFreq, call.format)}

\* the scanned bins that hold the maximum magnitude of the scanned bins
Loudest(call) ==
    {i \in Scanned(call) :
        \A j \in Scanned(call) : call.frequencyData[j + 1] <= call.frequencyData[i + 1]}

\* C18: getDominantFrequency returns the frequency of the lowest bin that holds
\* the maximum magnitude of the bins of [bin(minFreq), bin(maxFreq)) inside the
\* spectrum, and null when that maximum is below 100 or no bin is scanned; it
\* never returns the frequency of a bin outside the scanned range.
C18_DominantIsLoudest ==
    (utilPc = "done" /\ utilCall.fn = "getDominantFrequency") =>
        IF Scanned(utilCall) = {}
           \/ \A i \in Scanned(utilCall) : utilCall.frequencyData[i + 1] < 100
        THEN utilResult = Null
        ELSE /\ utilResult =
                  Rat(Least(Loudest(utilCall)) * utilCall.format.sampleRate,
                      utilCall.format.fftSize)
             /\ \E i \in Scanned(utilCall) :
                   utilResult = Rat(i * utilCall.format.sampleRate, utilCall.format.fftSize)

\* two scanned bins hold the maximum and a louder bin lies outside the range
C18_Witness ==
    /\ utilPc = "done" /\ utilCall.fn = "getDominantFrequency"
    /\ utilCall.frequencyData = <<200, 100, 99, 100, 200, 0>>
    /\ utilCall.format.fftSize = 64 /\ utilCall.range.minFreq = 500
    /\ Loudest(utilCall) = {1, 3}
    /\ utilResult = Rat(44100, 64)

\* the band of the catalog with the given name
BandOf(name) == CHOOSE b \in {Bands[x] : x \in 1..Len(Bands)} : b.name = name

\* the bins i of the spectrum with bin(min) <= i < bin(max)
BandBins(call, name) ==
    {i \in 0..(Len(call.frequencyData) - 1) :
        /\ BinOf(BandOf(name).min, call.format) <= i
        /\ i < BinOf(BandOf(name).max, call.format)}

\* calculateBandEnergies returned for the whole spectrum of an analyser, every
\* bin of it at magnitude 100
UniformReturned ==
    /\ utilPc = "done" /\ utilCall.fn = "calculateBandEnergies"
    /\ utilCall.frequencyData = Uniform(100, utilCall.format.fftSize \div 2)

\* C19 as stated: for a spectrum of fftSize / 2 bins of uniform magnitude 100,
\* every one of the seven bands has energy 100, whatever the sample rate and
\* the transform size.
C19_UniformAllBands ==
    UniformReturned => \A name \in BandNames : utilResult[name] = Num(100)

\* C19: for a spectrum of fftSize / 2 bins of uniform magnitude 100, every band
\* that holds at least one bin of the spectrum has energy 100, and a band that
\* holds none has energy 0.
C19_UniformCoveredBands ==
    UniformReturned =>
        \A name \in BandNames :
            utilResult[name] = IF BandBins(utilCall, name) = {} THEN Num(0) ELSE Num(100)

\* at 44100 Hz and 2048 points every band holds a bin, and every energy is 100
C19_Witness ==
    /\ UniformReturned
    /\ utilCall.format = [sampleRate |-> 44100, fftSize |-> 2048]
    /\ \A name \in BandNames : BandBins(utilCall, name) # {}
    /\ \A name \in BandNames : utilResult[name] = Num(100)

\* at 8000 Hz the bins end at 4000 Hz: presence and brilliance hold no bin
C19_EmptyBand ==
    /\ UniformReturned
    /\ utilCall.format = [sampleRate |-> 8000, fftSize |-> 2048]
    /\ BandBins(utilCall, "presence") = {}
    /\ utilResult["presence"] = Num(0)
    /\ utilResult["mid"] = Num(100)

RECURSIVE SumOver(_, _, _, _)
\* the sum of the magnitudes of the bins of S among the bins lo .. hi
SumOver(frequencyData, S, lo, hi) ==
    IF lo > hi THEN 0
    ELSE IF lo = hi THEN (IF lo \in S THEN frequencyData[lo + 1] ELSE 0)
    ELSE SumOver(frequencyData, S, lo, (lo + hi) \div 2)
         + SumOver(frequencyData, S, (lo + hi) \div 2 + 1, hi)

\* the arithmetic mean of the magnitudes of the bins of S
MeanOver(frequencyData, S) ==
    Rat(SumOver(frequencyData, S, 0, Len(frequencyData) - 1), Cardinality(S))

\* C20: each band's energy is the arithmetic mean of the magnitudes of the bins
\* i with bin(min) <= i < bin(max) and i < spectrum length, and 0 for a band
\* with no such bin; every energy lies in [0, 255], and no bin is counted in
\* more than one band.
C20_BandMeans ==
    (utilPc = "done" /\ utilCall.fn = "calculateBandEnergies") =>
        /\ \A name \in BandNames :
              /\ utilResult[name] =
                    IF BandBins(utilCall, name) = {} THEN Num(0)
                    ELSE MeanOver(utilCall.frequencyData, BandBins(utilCall, name))
              /\ FLe(Num(0), utilResult[name]) /\ FLe(utilResult[name], Num(255))
        /\ \A a, b \in BandNames :
              a # b => BandBins(utilCall, a) \cap BandBins(utilCall, b) = {}

\* a band of three bins with mean 355/3, a band of two bins and empty bands
C20_Witness ==
    /\ utilPc = "done" /\ utilCall.fn = "calculateBandEnergies"
    /\ utilCall.frequencyData = <<255, 0, 100, 255, 100, 255>>
    /\ utilCall.format = [sampleRate |-> 8000, fftSize |-> 16]
    /\ BandBins(utilCall, "mid") = {1, 2, 3}
    /\ utilResult["mid"] = Rat(355, 3)
    /\ utilResult["highMid"] = Rat(355, 2)
    /\ utilResult["bass"] = Num(255)
    /\ BandBins(utilCall, "subBass") = {} /\ utilResult["subBass"] = Num(0)

\* the bins of the spectrum with a magnitude other than 0
NonZeroBins(frequencyData) ==
    {i \in 0..(Len(frequencyData) - 1) : frequencyData[i + 1] # 0}

Greatest(S) == CHOOSE t \in S : \A u \in S : u <= t

RECURSIVE MomentOver(_, _, _)
\* the sum of i * magnitude over the bins lo .. hi
MomentOver(frequencyData, lo, hi) ==
    IF lo > hi THEN 0
    ELSE IF lo = hi THEN lo * frequencyData[lo + 1]
    ELSE MomentOver(frequencyData, lo, (lo + hi) \div 2)
         + MomentOver(frequencyData, (lo + hi) \div 2 + 1, hi)

\* the frequency of bin i
FrequencyOfBin(i, format) == Rat(i * format.sampleRate, format.fftSize)

\* C21: calculateSpectralCentroid returns 0 when the total magnitude is 0 (an
\* all-zero or empty spectrum) and otherwise the magnitude-weighted mean of the
\* bin frequencies, which lies between the frequency of the lowest and of the
\* highest bin with a magnitude other than 0.
C21_CentroidWeightedMean ==
    (utilPc = "done" /\ utilCall.fn = "calculateSpectralCentroid") =>
        LET frequencyData == utilCall.frequencyData
            last == Len(frequencyData) - 1
        IN  IF NonZeroBins(frequencyData) = {} THEN utilResult = Num(0)
            ELSE /\ utilResult =
                      Rat(MomentOver(frequencyData, 0, last) * utilCall.format.sampleRate,
                          SumOver(frequencyData, 0..last, 0, last) * utilCall.format.fftSize)
                 /\ FLe(FrequencyOfBin(Least(NonZeroBins(frequencyData)), utilCall.format),
                        utilResult)
                 /\ FLe(utilResult,
                        FrequencyOfBin(Greatest(NonZeroBins(frequencyData)), utilCall.format))

\* a centroid strictly between the two bins that carry the magnitude
C21_Witness ==
    /\ utilPc = "done" /\ utilCall.fn = "calculateSpectralCentroid"
    /\ utilCall.frequencyData = <<0, 255, 0, 1, 0>>
    /\ utilCall.format = [sampleRate |-> 8000, fftSize |-> 16]
    /\ utilResult = Rat(258 * 500, 256)
    /\ FLt(Num(500), utilResult) /\ FLt(utilResult, Num(1500))

\* the mean of the energies of the instrument's bands, over 180
MeanBandLevel(frequencyData, id) ==
    LET format == [sampleRate |-> ContextSampleRate, fftSize |-> AnalyserFftSize]
        call == [frequencyData |-> frequencyData, format |-> format]
        energy(name) == IF BandBins(call, name) = {} THEN Num(0)
                        ELSE MeanOver(frequencyData, BandBins(call, name))
        bands == INSTRUMENTS[id]
        total == IF Len(bands) = 2 THEN FAdd(energy(bands[1]), energy(bands[2]))
                 ELSE FAdd(FAdd(energy(bands[1]), energy(bands[2])), energy(bands[3]))
    IN  FDiv(total, Num(180 * Len(bands)))

\* C22: every instrument level is always within [0, 1]: while playing with a
\* spectrum available it is min(1, mean of the energies of the instrument's
\* bands / 180), and whenever no spectrum is available or playback is stopped
\* all nine levels are 0.
C22_LevelsInUnitRange ==
    /\ Cardinality(DOMAIN instrumentLevels) = 9
    /\ \A id \in DOMAIN instrumentLevels :
          /\ FLe(Num(0), instrumentLevels[id]) /\ FLe(instrumentLevels[id], Num(1))
          /\ IF store.isPlaying /\ store.frequencyData.set
             THEN instrumentLevels[id] =
                     IF FLt(MeanBandLevel(store.frequencyData.data, id), Num(1))
                     THEN MeanBandLevel(store.frequencyData.data, id)
                     ELSE Num(1)
             ELSE instrumentLevels[id] = Num(0)

\* a loud frame while playing: kick is clamped to 1, guitar is 17/24, hihat is 0
C22_Witness ==
    /\ store.isPlaying /\ store.frequencyData.set
    /\ store.frequencyData.data = FloorSpectrum
    /\ FLt(Num(1), MeanBandLevel(FloorSpectrum, "kick"))
    /\ instrumentLevels["kick"] = Num(1)
    /\ instrumentLevels["guitar"] = Rat(17, 24)
    /\ instrumentLevels["hihat"] = Num(0)

\* playback was paused after a loud frame: the spectrum stays, the levels are 0
C22_PausedWitness ==
    /\ ~store.isPlaying /\ store.frequencyData.set
    /\ store.frequencyData.data = FloorSpectrum
    /\ \A id \in DOMAIN instrumentLevels : instrumentLevels[id] = Num(0)

----------------------------------------------------------------------------
(* More claims about beat detection *)

\* C26: with sensitivity >= 1, the first detectBeat call after
\* resetBeatDetection or on a fresh history never reports a beat, whatever its
\* energy, because averageEnergy is then the call's own energy; more generally
\* no call whose energy is at most the mean of the window including itself
\* reports a beat.
C26_FirstCallNeverBeat ==
    (lastCall[1].called /\ FLe(Num(1), lastCall[1].sensitivity)) =>
        /\ Len(callLog[1]) = 1 =>
              /\ ~lastCall[1].info.isBeat
              /\ ~IsNaN(lastCall[1].info.energy) =>
                    FEq(lastCall[1].info.averageEnergy, lastCall[1].info.energy)
        /\ FLe(lastCall[1].info.energy, lastCall[1].info.averageEnergy) =>
              ~lastCall[1].info.isBeat

\* a first call of energy 80, above the floor of 50, at sensitivity 1.3: no beat
C26_Witness ==
    /\ lastCall[1].called /\ Len(callLog[1]) = 1 /\ Len(energyHistory) = 1
    /\ lastCall[1].sensitivity = DefaultSensitivity
    /\ lastCall[1].info.energy = Num(80)
    /\ lastCall[1].info.averageEnergy = Num(80)
    /\ ~lastCall[1].info.isBeat

----------------------------------------------------------------------------
(* Claims about the state the analysis functions touch *)

\* C25: the beat history is the only state the analysis functions change:
\* detectBeat changes nothing but the history and leaves its input spectrum
\* unchanged, and getDominantFrequency, getFrequencyPeaks,
\* calculateSpectralCentroid, calculateBandEnergies, detectPitchYIN,
\* detectPitchAutocorrelation and frequencyToNote leave the beat history and
\* their input buffers unchanged.
C25_OnlyHistoryChanges ==
    [][/\ UNCHANGED <<utilCall, yinCall, playerVars>>
       /\ (utilPc' # utilPc /\ utilCall.fn # "detectBeat") => UNCHANGED energyHistory
       /\ yinPc' # yinPc => UNCHANGED energyHistory
       /\ (utilPc' # utilPc /\ utilCall.fn = "detectBeat") =>
             /\ energyHistory' # energyHistory
             /\ UNCHANGED yinVars]_vars

\* getFrequencyPeaks and detectPitchYIN returned with two entries in the history
C25_Witness ==
    /\ utilPc = "done" /\ utilCall.fn = "getFrequencyPeaks"
    /\ utilCall.frequencyData = SpikeSpectrum
    /\ yinPc = "done" /\ yinCall.buffer = ToneWindow
    /\ Len(energyHistory) = 2

\* detectBeat returned on the frame's spectrum, its energy the newest entry
C25_BeatWitness ==
    /\ utilPc = "done" /\ utilCall.fn = "detectBeat"
    /\ utilCall.frequencyData = SpikeSpectrum
    /\ Len(energyHistory) = 3
    /\ energyHistory[3] = utilResult.energy

----------------------------------------------------------------------------
(* Claims about playback and the analysis loop                             *)

\* C8: whenever a seek is performed or a new source is loaded the beat history is
\* cleared before a later frame's beat detection uses it: no energy sample
\* recorded before the seek or load is in a window a later detectBeat averages.
C8_HistoryClearedOnJump == staleUsed = 0

\* the pitch and the note the analysis loop derives from a captured window
PitchOfWindow(window) == DetectPitchYIN(window, ContextSampleRate, DefaultThreshold)
NoteOfWindow(window) ==
    IF PitchOfWindow(window).k \in {"null", "nan"} \/ PitchOfWindow(window) = Num(0)
    THEN NoNote
    ELSE FrequencyToNote(PitchOfWindow(window))

\* C9: the exposed pitch and note are never stale: a non-null detectedPitch or
\* detectedNote was derived from the most recently captured sample window of an
\* analysis that is still running, and when playback is paused, stopped or ended
\* both are none.
C9_PitchNeverStale ==
    /\ (store.detectedPitch # Null \/ store.detectedNote # NoNote)
          => /\ store.isPlaying /\ animationRef /\ timeDomainDataRef.set
             /\ store.detectedPitch = PitchOfWindow(timeDomainDataRef.data)
             /\ store.detectedNote = NoteOfWindow(timeDomainDataRef.data)
    /\ ~store.isPlaying => (store.detectedPitch = Null /\ store.detectedNote = NoNote)

\* the analysis fields of the store
AnalysisFields(st) == <<st.frequencyData, st.detectedPitch, st.detectedNote>>

\* C27: the analysis loop has at most one frame callback pending at any time;
\* whenever isPlaying becomes false or the hook unmounts the pending callback
\* is cancelled, so no analyzeFrame runs and no analysis field of the store
\* changes until isPlaying becomes true again; while isPlaying stays true each
\* executed frame schedules exactly one next frame.
C27_OneFramePending ==
    [][/\ pendingFrames' <= 1
       /\ (~store'.isPlaying \/ ~mounted') => pendingFrames' = 0
       /\ (~store.isPlaying \/ ~mounted) =>
             /\ AnalysisFields(store') = AnalysisFields(store)
             /\ timeDomainDataRef' = timeDomainDataRef
       /\ (store.isPlaying /\ store'.isPlaying /\ mounted') => pendingFrames' = 1]_vars

\* a frame ran, playback was paused, and the clock went on with no frame pending
C27_Witness ==
    /\ mounted /\ ~store.isPlaying /\ store.audioBuffer # 0
    /\ store.frequencyData.set /\ timeDomainDataRef.set
    /\ pendingFrames = 0 /\ ~animationRef
    /\ store.currentTime > 0
    /\ ctxTime > store.currentTime

\* the components unmounted while playing: the pending frame is cancelled
C27_UnmountWitness ==
    /\ ~mounted /\ store.isPlaying /\ store.frequencyData.set
    /\ pendingFrames = 0 /\ ~animationRef

\* C28: the onended handler resets playback to stopped-at-zero only when
\* playback reached the end of the buffer; the handler of a source that pause,
\* seek or stop ended never resets, so after pause() at a position p the store
\* keeps currentTime = p and the next play resumes from p.
C28_StoppedSourceNeverResets ==
    [][(pendingEnded' # pendingEnded /\ pendingEnded' \subseteq pendingEnded) =>
          /\ store'.currentTime = store.currentTime
          /\ store'.isPlaying = store.isPlaying
          /\ pauseTimeRef' = pauseTimeRef]_vars

\* paused at position 1 of a track of 3: the handler of the stopped source has
\* run and the position is 0
C28_PausePositionLost ==
    /\ ~store.isPlaying /\ store.audioBuffer = 3 /\ ~store.audioSource.set
    /\ pendingEnded = {}
    /\ ctxTime = 1 /\ startTimeRef["AudioPlayer"] = 0
    /\ store.currentTime = 0 /\ pauseTimeRef["AudioPlayer"] = 0

\* the position the playing source has reached in its buffer
AudioPosition(source) == source.offset + (ctxTime - source.startedAt)

\* a step of the periodic update that writes currentTime
TimeWritten ==
    /\ store.isPlaying
    /\ store' # store
    /\ store' = [store EXCEPT !.currentTime = store'.currentTime]
    /\ UNCHANGED <<ctxTime, pauseTimeRef, startTimeRef, pendingEnded, loading>>

\* C29: while playing, after seek(t) for any target and any seek distance,
\* targets within 0.5 s of the current position included, every later periodic
\* time update sets the store's currentTime to the true audio position, t plus
\* the time elapsed since the seek, never a position of the pre-seek timeline.
C29_TimeFollowsSeek ==
    [][(TimeWritten /\ store.audioSource.set /\ store.audioSource.bySeek) =>
          store'.currentTime = AudioPosition(store.audioSource)]_vars

\* playing from 0, a seek from position 1 to 3, half a second ahead: the update
\* wrote 1 over the target
C29_SeekOverwritten ==
    /\ store.isPlaying /\ store.audioSource.set /\ store.audioSource.bySeek
    /\ store.audioSource.offset = 3 /\ store.audioSource.startedAt = ctxTime
    /\ analyzerStartTimeRef = 0 /\ ctxTime = 1
    /\ store.currentTime = 1

\* a step in which a loader's loadAudioFile or loadAudioUrl completes
LoadCompleted == \E i \in Loaders, d \in Durations : LoadDone(i, d)

\* the offset the next play of the player controls starts the buffer at
NextPlayOffset == Played(store, "AudioPlayer", pauseTimeRef["AudioPlayer"]).audioSource.offset

\* C30: after loadAudioFile or loadAudioUrl completes on paused playback, the
\* store's currentTime is 0 and the next play started from the player controls
\* begins the new buffer at offset 0, whatever the position the previous track
\* was paused at and whichever component's hook instance performed the load.
C30_LoadedTrackStartsAtZero ==
    [][(LoadCompleted /\ ~store.isPlaying) =>
          /\ store'.currentTime = 0
          /\ NextPlayOffset' = 0]_vars

\* the part of C30 about the store: a completed load leaves currentTime at 0
C30_LoadResetsCurrentTime ==
    [][LoadCompleted => store'.currentTime = 0]_vars

\* a new track was loaded over one paused at position 1: the store's
\* currentTime is 0 and the player controls' play() will start at offset 1
C30_StalePausePosition ==
    /\ ~store.isPlaying /\ CanPlay(store) /\ loading = {}
    /\ store.currentTime = 0
    /\ pauseTimeRef["AudioPlayer"] = 1
    /\ NextPlayOffset = 1

====
